---- MODULE Spec2Model ----
(***************************************************************************)
(* Model of the healthcare ingestion repository:                           *)
(*   src/healthcare_gd_to_s3.py  Drive -> S3 incremental sync Lambda and   *)
(*                               its Glue trigger guard                    *)
(*   src/raw_to_refined.py       Glue raw -> refined transform job         *)
(*   src/run_athena_sql.py       ordered Athena SQL script runner          *)
(*                                                                         *)
(* Modification timestamps are ISO-8601 strings of one fixed format in the *)
(* program and are compared as strings; the model writes them as naturals  *)
(* 1..MaxTime with the same order, and 0 for the absent / empty timestamp  *)
(* (None and "" are both falsy in the code and "" sorts below every        *)
(* timestamp).                                                             *)
(***************************************************************************)
EXTENDS Naturals, Integers, Sequences, FiniteSets, TLC

----------------------------------------------------------------------------
(* Bounds of the model *)

\* largest modification timestamp the remote store hands out
MaxTime == 2
\* job runs the job-execution service holds at most (sync specification)
MaxRuns == 1
\* the same, where the guard is driven on its own
MaxGuardRuns == 6
\* the same, where two guards overlap
MaxRaceRuns == 2
\* largest processed count handed to the guard when it is driven on its own
MaxProcessed == 1
\* longest dataset list of the transform job
MaxDatasets == 3
\* most columns of a header handed to uniqueify
MaxCols == 3
\* most columns of a raw frame handed to the per-dataset pipeline
MaxWidth == 2
\* the MAX_POLLS setting of the SQL script runner
MaxPolls == 2

----------------------------------------------------------------------------
(* Strings: TLC gives Len, SubSeq and \o on strings *)

UpperChars == "ABCDEFGHIJKLMNOPQRSTUVWXYZ"
LowerChars == "abcdefghijklmnopqrstuvwxyz"
Digits == "0123456789"

CharAt(s, i) == SubSeq(s, i, i)

IsDigit(c) == \E i \in 1..Len(Digits) : CharAt(Digits, i) = c

\* one character of str.lower()
LowerChar(c) ==
    IF \E i \in 1..Len(UpperChars) : CharAt(UpperChars, i) = c
    THEN CharAt(LowerChars, CHOOSE i \in 1..Len(UpperChars) : CharAt(UpperChars, i) = c)
    ELSE c

RECURSIVE Lower(_)
Lower(s) == IF Len(s) = 0 THEN "" ELSE LowerChar(CharAt(s, 1)) \o Lower(SubSeq(s, 2, Len(s)))

\* str.endswith
EndsWith(s, suf) == Len(s) >= Len(suf) /\ SubSeq(s, Len(s) - Len(suf) + 1, Len(s)) = suf

\* str.strip("/") of the S3_PREFIX setting
RECURSIVE StripSlashes(_)
StripSlashes(s) ==
    IF Len(s) > 0 /\ CharAt(s, 1) = "/" THEN StripSlashes(SubSeq(s, 2, Len(s)))
    ELSE IF Len(s) > 0 /\ CharAt(s, Len(s)) = "/" THEN StripSlashes(SubSeq(s, 1, Len(s) - 1))
    ELSE s

----------------------------------------------------------------------------
(* Dataset routing rules *)

\* One compiled rule  ^<pre>\d{<nd>}<mid>(.*)?<suf>$  with re.IGNORECASE,
\* and the dataset folder it routes to.
Rule(pre, nd, mid, glob, suf, folder) ==
    [pre |-> pre, nd |-> nd, mid |-> mid, glob |-> glob, suf |-> suf, folder |-> folder]

ROUTE_RULES ==
    << Rule("FY_", 4, "_SNF_VBP_Aggregate_Performance", FALSE, ".csv", "snf_vbp_aggregate"),
       Rule("FY_", 4, "_SNF_VBP_Facility_Performance", FALSE, ".csv", "snf_vbp_facility"),
       Rule("NH_CitationDescriptions_", 0, "", TRUE, ".csv", "nh_citation_descriptions"),
       Rule("NH_CovidVaxAverages_", 0, "", TRUE, ".csv", "nh_covid_vax_averages"),
       Rule("NH_CovidVaxProvider_", 0, "", TRUE, ".csv", "nh_covid_vax_provider"),
       Rule("NH_DataCollectionIntervals_", 0, "", TRUE, ".csv", "nh_data_collection_intervals"),
       Rule("NH_FireSafetyCitations_", 0, "", TRUE, ".csv", "nh_fire_safety_citations"),
       Rule("NH_HealthCitations_", 0, "", TRUE, ".csv", "nh_health_citations"),
       Rule("NH_HlthInspecCutpointsState_", 0, "", TRUE, ".csv", "nh_health_inspection_cutpoints_state"),
       Rule("NH_Ownership_", 0, "", TRUE, ".csv", "nh_ownership"),
       Rule("NH_Penalties_", 0, "", TRUE, ".csv", "nh_penalties"),
       Rule("NH_ProviderInfo_", 0, "", TRUE, ".csv", "nh_provider_info"),
       Rule("NH_QualityMsr_Claims_", 0, "", TRUE, ".csv", "nh_quality_measure_claims"),
       Rule("NH_QualityMsr_MDS_", 0, "", TRUE, ".csv", "nh_quality_measure_mds"),
       Rule("NH_StateUSAverages_", 0, "", TRUE, ".csv", "nh_state_us_averages"),
       Rule("NH_SurveyDates_", 0, "", TRUE, ".csv", "nh_survey_dates"),
       Rule("NH_SurveySummary_", 0, "", TRUE, ".csv", "nh_survey_summary"),
       Rule("PBJ_Daily_Nurse_Staffing_", 0, "", TRUE, ".csv", "pbj_daily_nurse_staffing"),
       Rule("Skilled_Nursing_Facility_Quality_Reporting_Program_National_Data_", 0, "", TRUE, ".csv", "snf_qrp_national"),
       Rule("Skilled_Nursing_Facility_Quality_Reporting_Program_Provider_Data_", 0, "", TRUE, ".csv", "snf_qrp_provider"),
       Rule("Swing_Bed_SNF_data_", 0, "", TRUE, ".csv", "swing_bed_snf") >>

\* PatternMatch without re.IGNORECASE
PatternMatch_CaseSensitive(r, file_name) ==
    LET n    == Len(file_name)
        head == Len(r.pre) + r.nd + Len(r.mid)
    IN  /\ IF r.glob THEN n >= head + Len(r.suf) ELSE n = head + Len(r.suf)
        /\ SubSeq(file_name, 1, Len(r.pre)) = r.pre
        /\ \A i \in (Len(r.pre) + 1)..(Len(r.pre) + r.nd) : IsDigit(CharAt(file_name, i))
        /\ SubSeq(file_name, Len(r.pre) + r.nd + 1, head) = r.mid
        /\ EndsWith(file_name, r.suf)

\* pattern.match(file_name): anchored at both ends, letters compared
\* case-insensitively, \d{n} exactly n digits, .* any run of characters.
PatternMatch(r, file_name) ==
    LET n    == Len(file_name)
        head == Len(r.pre) + r.nd + Len(r.mid)
        low  == Lower(file_name)
    IN  /\ IF r.glob THEN n >= head + Len(r.suf) ELSE n = head + Len(r.suf)
        /\ SubSeq(low, 1, Len(r.pre)) = Lower(r.pre)
        /\ \A i \in (Len(r.pre) + 1)..(Len(r.pre) + r.nd) : IsDigit(CharAt(file_name, i))
        /\ SubSeq(low, Len(r.pre) + r.nd + 1, head) = Lower(r.mid)
        /\ EndsWith(low, Lower(r.suf))

dataset_folder_for(file_name) ==
    IF \E i \in 1..Len(ROUTE_RULES) : PatternMatch(ROUTE_RULES[i], file_name)
    THEN LET first == CHOOSE i \in 1..Len(ROUTE_RULES) :
                        /\ PatternMatch(ROUTE_RULES[i], file_name)
                        /\ \A j \in 1..(i - 1) : ~PatternMatch(ROUTE_RULES[j], file_name)
         IN  ROUTE_RULES[first].folder
    ELSE "_unmapped"

\* The S3_PREFIX setting after .strip("/")
S3_PREFIX == StripSlashes("raw/")
TARGET_S3_BUCKET == "bucket"

build_s3_key(file_name) ==
    LET dataset == dataset_folder_for(file_name)
    IN  IF S3_PREFIX # "" THEN S3_PREFIX \o "/" \o dataset \o "/" \o file_name
        ELSE dataset \o "/" \o file_name

----------------------------------------------------------------------------
(* The remote folder: three files, listed in a fixed order.  A file's     *)
(* identifier and name never change; its modification timestamp does.     *)

FileIds == {"f1", "f2", "f3"}
FileOrder == <<"f1", "f3", "f2">>

FileName(f) ==
    CASE f = "f1" -> "NH_Ownership_Oct2024.csv"
      [] f = "f2" -> "unknownfile.CSV"
      [] f = "f3" -> "readme.txt"

\* file_name.lower().endswith(".csv")
IsCsv(file_name) == EndsWith(Lower(file_name), ".csv")

\* The names in the folder, and the three functions of a name tabulated over
\* them (each is evaluated once, not at every step)
FileNames == {FileName(f) : f \in FileIds}
CsvOf == [n \in FileNames |-> IsCsv(n)]
FolderOf == [n \in FileNames |-> dataset_folder_for(n)]
KeyOf == [n \in FileNames |-> build_s3_key(n)]

CsvIds == {f \in FileIds : CsvOf[FileName(f)]}

Times == 0..MaxTime

\* invocations that may be in flight at once
Procs == {1, 2}

NonTerminal == {"STARTING", "RUNNING", "STOPPING"}
RunStates == NonTerminal \cup {"SUCCEEDED", "STOPPED"}

\* MaxResults of the get_job_runs call
MaxResults == 5

VARIABLES
    env,         \* which required settings are set: bucket, secret, table, job
    drive,       \* remote store: file id -> modifiedTime (0: none)
    table,       \* state store: file id -> item, for the ids that have one
    s3,          \* destination store: the keys that hold an object
    tmp,         \* local staging per container: the ids whose /tmp/<id>.csv exists
    runs,        \* job runs of GLUE_JOB_NAME, oldest first; a run's Id is its index
    lam,         \* per invocation: position and locals of lambda_handler
    hist,        \* per invocation: what it has called and written so far
    prev,        \* per container: how the invocation before the current one ended
    uploadedOk,  \* ids whose upload has completed at least once
    raced        \* two invocations have stood between run listing and start at once

syncVars == <<env, drive, table, s3, tmp, runs, lam, hist, prev, uploadedOk, raced>>

\* The transform job (src/raw_to_refined.py)
VARIABLES
    cfg,         \* the job's resolved options
    refined,     \* refined location -> "none", "old" (an earlier run's output)
                 \* or "new" (written by this run)
    job          \* position, locals and results of run()

jobVars == <<cfg, refined, job>>

\* Overlapping invocations of the sync Lambda
VARIABLES
    conc         \* per invocation: solo, it began when every other had ended
                 \* and none began since; settled, an earlier solo invocation
                 \* of the container returned and the listing is still the same

concVars == <<conc>>

\* A function of the program applied to an input
VARIABLES
    call,        \* the function and its arguments
    ret          \* whether it has returned, and what

callVars == <<call, ret>>

\* The SQL script runner (run_athena_sql.py)
VARIABLES
    objects,     \* the SQL bucket under SQL_PREFIX: key -> text of the object
    queries,     \* the query executions of the service, oldest first; a
                 \* query's id is its index
    runner       \* position, locals and outcome of the runner's lambda_handler

sqlVars == <<objects, queries, runner>>

\* what the steps of the sync Lambda leave alone, and the steps of the job
notSync == <<jobVars, concVars, callVars, sqlVars>>
notJob == <<syncVars, concVars, callVars, sqlVars>>

----------------------------------------------------------------------------
(* The transform job: options, locations, state before job.init *)

DEFAULT_DATASETS ==
    <<"snf_vbp_aggregate", "snf_vbp_facility", "nh_citation_descriptions",
      "nh_covid_vax_averages", "nh_covid_vax_provider",
      "nh_data_collection_intervals", "nh_fire_safety_citations",
      "nh_health_citations", "nh_health_inspection_cutpoints_state",
      "nh_ownership", "nh_penalties", "nh_provider_info",
      "nh_quality_measure_claims", "nh_quality_measure_mds",
      "nh_state_us_averages", "nh_survey_dates", "nh_survey_summary",
      "pbj_daily_nurse_staffing", "snf_qrp_national", "snf_qrp_provider",
      "swing_bed_snf">>

\* The DATASETS option is a comma-separated list that the job takes as it
\* is given: its first entries here are those of the default list, and one
\* list names a dataset twice.
DatasetNames == {DEFAULT_DATASETS[n] : n \in 1..MaxDatasets}

RepeatedList == <<DEFAULT_DATASETS[1], DEFAULT_DATASETS[2], DEFAULT_DATASETS[1]>>

DatasetLists ==
    {SubSeq(DEFAULT_DATASETS, 1, n) : n \in 0..MaxDatasets} \cup {RepeatedList}

RAW_BUCKET == "bucket"
RAW_PREFIX == StripSlashes("raw/")
REFINED_BUCKET == "bucket"
REFINED_PREFIX == StripSlashes("/refined/")

s3_path(bucket, prefix, dataset) == "s3://" \o bucket \o "/" \o prefix \o "/" \o dataset \o "/"

RefinedPathOf == [d \in DatasetNames |-> s3_path(REFINED_BUCKET, REFINED_PREFIX, d)]

RefinedPaths == {RefinedPathOf[d] : d \in DatasetNames}

WriteModes == {"overwrite", "append"}

Configs ==
    [DATASETS : DatasetLists, SKIP_MISSING : BOOLEAN,
     FAIL_JOB_ON_DATASET_FAILURE : BOOLEAN, WRITE_MODE : WriteModes]

\* the options when none is given (lines 69-81), the list cut to the bound
DefaultConfig ==
    [DATASETS |-> SubSeq(DEFAULT_DATASETS, 1, MaxDatasets), SKIP_MISSING |-> TRUE,
     FAIL_JOB_ON_DATASET_FAILURE |-> TRUE, WRITE_MODE |-> "overwrite"]

\* results = {"processed": [], "skipped_missing": [], "failed": []}
NoResults == [processed |-> <<>>, skipped_missing |-> <<>>, failed |-> <<>>]

\* idx: position of the for loop in DATASETS; attempted: the entries whose
\* iteration has begun, in the order they began; columns: what the last read
\* gave, "zero" or "some" columns ("unread" before the first that returned)
IdleJob ==
    [pc |-> "idle", idx |-> 1, results |-> NoResults, attempted |-> <<>>,
     columns |-> "unread"]

NoConc == [solo |-> FALSE, settled |-> FALSE]

NoCall == [fn |-> "none"]

NoReturn == [done |-> FALSE]

NoCallYet ==
    /\ call = NoCall
    /\ ret = NoReturn

\* the runner's lambda_handler before it is invoked
IdleRunner ==
    [pc |-> "idle", keys |-> <<>>, idx |-> 1, qid |-> 0, polls |-> 0,
     results |-> <<>>, error |-> "none"]

\* the SQL script runner has not been invoked, its bucket holds no script
RunnerAtRest ==
    /\ objects = [k \in {} |-> ""]
    /\ queries = <<>>
    /\ runner = IdleRunner

\* the transform job has not begun, no invocation overlaps another, the SQL
\* script runner is at rest
JobIdleState ==
    /\ conc = [p \in Procs |-> NoConc]
    /\ cfg = DefaultConfig
    /\ refined = [path \in RefinedPaths |-> "none"]
    /\ job = IdleJob
    /\ RunnerAtRest

JobAtRest ==
    /\ NoCallYet
    /\ JobIdleState

----------------------------------------------------------------------------
(* The sync Lambda: state *)

NoFail == [step |-> "none", file |-> "none"]

NoResult == [started |-> FALSE, reason |-> "not called"]

FreshHist ==
    [sel |-> {}, downs |-> {}, ups |-> {}, wrote |-> {}, fail |-> NoFail,
     lists |-> 0, listed |-> "none", active |-> FALSE, seen |-> 0,
     startcalls |-> 0, starts |-> 0]

IdleLam ==
    [pc |-> "idle", files |-> [f \in FileIds |-> 0], idx |-> 1,
     processed |-> 0, skipped |-> 0, unmapped |-> 0, glue_result |-> NoResult]

NoPrev == [completed |-> FALSE, upfail |-> "none", upkey |-> "", same |-> FALSE]

EmptyTable == [f \in {} |-> 0]

AllSet == [bucket |-> TRUE, secret |-> TRUE, table |-> TRUE, job |-> TRUE]

InitSync ==
    /\ env = AllSet
    /\ drive \in [FileIds -> Times]
    /\ drive["f3"] = 1
    /\ table = EmptyTable
    /\ s3 = {}
    /\ tmp = [p \in Procs |-> {}]
    /\ runs = <<>>
    /\ lam = [p \in Procs |-> IdleLam]
    /\ hist = [p \in Procs |-> FreshHist]
    /\ prev = [p \in Procs |-> NoPrev]
    /\ uploadedOk = {}
    /\ raced = FALSE
    /\ JobAtRest

Ended(p) == lam[p].pc \in {"idle", "done", "failed"}

\* the file the loop of invocation p stands at
Cur(p) == FileOrder[lam[p].idx]

\* an exception leaves lambda_handler: the invocation ends with the error
Raise(p, step, file) ==
    /\ lam' = [lam EXCEPT ![p].pc = "failed"]
    /\ hist' = [hist EXCEPT ![p].fail = [step |-> step, file |-> file]]

----------------------------------------------------------------------------
(* Change detection and state commit *)

\* should_process_file that knows new files only: a stored item, however
\* old its timestamp, counts as up to date
should_process_file_NewOnly(tbl, file_id, drive_modified_time) ==
    file_id \notin DOMAIN tbl

\* should_process_file with >= for >: an unchanged file counts as changed
should_process_file_ge(tbl, file_id, drive_modified_time) ==
    IF file_id \notin DOMAIN tbl THEN TRUE
    ELSE IF tbl[file_id].modifiedTime = 0 THEN TRUE
    ELSE drive_modified_time >= tbl[file_id].modifiedTime

should_process_file(tbl, file_id, drive_modified_time) ==
    IF file_id \notin DOMAIN tbl THEN TRUE
    ELSE IF tbl[file_id].modifiedTime = 0 THEN TRUE
    ELSE drive_modified_time > tbl[file_id].modifiedTime

\* update_state that leaves the modification timestamp out of the item
update_state_NoTime(tbl, file_id, file_name, drive_modified_time, s3_bucket, s3_key) ==
    [x \in DOMAIN tbl \cup {file_id} |->
        IF x = file_id
        THEN [file_name |-> file_name, modifiedTime |-> 0,
              s3_bucket |-> s3_bucket, s3_key |-> s3_key,
              dataset_folder |-> FolderOf[file_name]]
        ELSE tbl[x]]

\* table.put_item: the item replaces whatever the key held
update_state(tbl, file_id, file_name, drive_modified_time, s3_bucket, s3_key) ==
    [x \in DOMAIN tbl \cup {file_id} |->
        IF x = file_id
        THEN [file_name |-> file_name, modifiedTime |-> drive_modified_time,
              s3_bucket |-> s3_bucket, s3_key |-> s3_key,
              dataset_folder |-> FolderOf[file_name]]
        ELSE tbl[x]]

\* a decision that takes a .csv file without timestamp for unchanged once
\* the state store holds an item for it
Decide_SkipsUntimed(tbl, file_name, modified_time, file_id) ==
    IF ~CsvOf[file_name] THEN "not_csv"
    ELSE IF modified_time = 0
         THEN (IF file_id \in DOMAIN tbl THEN "skip" ELSE "process")
    ELSE IF ~should_process_file(tbl, file_id, modified_time) THEN "skip"
    ELSE "process"

\* The loop body's decision for one listed file: "not_csv", "skip" or "process"
Decide(tbl, file_name, modified_time, file_id) ==
    IF ~CsvOf[file_name] THEN "not_csv"
    ELSE IF modified_time = 0 THEN "process"
    ELSE IF ~should_process_file(tbl, file_id, modified_time) THEN "skip"
    ELSE "process"

----------------------------------------------------------------------------
(* lambda_handler, one action per step between two external calls *)

unchangedStores == UNCHANGED <<notSync, env, drive, table, s3, tmp, runs, uploadedOk, raced>>

\* how the invocation that p replaces ended: whether it returned, the file
\* whose upload raised, and whether it worked from the listing `listing`
Ending(p, listing) ==
    [completed |-> lam[p].pc = "done",
     upfail |-> IF hist[p].fail.step = "upload" THEN hist[p].fail.file ELSE "none",
     upkey |-> IF hist[p].fail.step = "upload"
               THEN (CHOOSE u \in hist[p].ups : u[1] = hist[p].fail.file)[2] ELSE "",
     same |-> lam[p].pc \in {"done", "failed"} /\ hist[p].fail.step # "list"
              /\ lam[p].files = listing]

\* Lines 256-269: settings checked, clients built, the folder listed
InvokeOk(p) ==
    /\ Ended(p)
    /\ env.bucket /\ env.secret /\ env.table
    /\ lam' = [lam EXCEPT ![p] = [IdleLam EXCEPT !.pc = "loop", !.files = drive]]
    /\ hist' = [hist EXCEPT ![p] = FreshHist]
    /\ prev' = [prev EXCEPT ![p] = Ending(p, drive)]
    /\ unchangedStores

\* get_secret_value or files().list raises
InvokeListFail(p) ==
    /\ Ended(p)
    /\ env.bucket /\ env.secret
    /\ lam' = [lam EXCEPT ![p] = [IdleLam EXCEPT !.pc = "failed"]]
    /\ hist' = [hist EXCEPT ![p] = [FreshHist EXCEPT !.fail = [step |-> "list", file |-> "none"]]]
    /\ prev' = [prev EXCEPT ![p] = NoPrev]
    /\ unchangedStores

InLoop(p) == lam[p].pc = "loop" /\ lam[p].idx <= Len(FileOrder)

Decision(p) == Decide(table, FileName(Cur(p)), lam[p].files[Cur(p)], Cur(p))

\* Line 271: the listing is exhausted
LoopEnd(p) ==
    /\ lam[p].pc = "loop" /\ lam[p].idx > Len(FileOrder)
    /\ lam' = [lam EXCEPT ![p].pc = "guard"]
    /\ UNCHANGED <<hist, prev>>
    /\ unchangedStores

\* Lines 278-280
SkipNonCsv(p) ==
    /\ InLoop(p) /\ Decision(p) = "not_csv"
    /\ lam' = [lam EXCEPT ![p].idx = @ + 1]
    /\ UNCHANGED <<hist, prev>>
    /\ unchangedStores

\* Lines 285-288
SkipUnchanged(p) ==
    /\ InLoop(p) /\ Decision(p) = "skip"
    /\ lam' = [lam EXCEPT ![p].idx = @ + 1, ![p].skipped = @ + 1]
    /\ UNCHANGED <<hist, prev>>
    /\ unchangedStores

\* Line 181: get_item raises
GetItemFail(p) ==
    /\ InLoop(p) /\ CsvOf[FileName(Cur(p))] /\ lam[p].files[Cur(p)] # 0
    /\ Raise(p, "get_item", Cur(p))
    /\ UNCHANGED prev
    /\ unchangedStores

\* Select that commits the state when the file is selected, before the transfer
Select_CommitsEarly(p) ==
    /\ lam[p].pc = "loop" /\ lam[p].idx <= Len(FileOrder)
    /\ Decide(table, FileName(Cur(p)), lam[p].files[Cur(p)], Cur(p)) = "process"
    /\ table' = [x \in DOMAIN table \cup {Cur(p)} |->
                    IF x = Cur(p)
                    THEN [file_name |-> FileName(Cur(p)), modifiedTime |-> lam[p].files[Cur(p)],
                          s3_bucket |-> TARGET_S3_BUCKET, s3_key |-> KeyOf[FileName(Cur(p))],
                          dataset_folder |-> FolderOf[FileName(Cur(p))]]
                    ELSE table[x]]
    /\ lam' = [lam EXCEPT ![p].pc = "download"]
    /\ hist' = [hist EXCEPT ![p].sel = @ \cup {Cur(p)}, ![p].wrote = @ \cup {Cur(p)}]
    /\ UNCHANGED <<notSync, env, drive, s3, tmp, runs, uploadedOk, raced, prev>>

\* Lines 282-299: the file is to be transferred
Select(p) ==
    /\ InLoop(p) /\ Decision(p) = "process"
    /\ lam' = [lam EXCEPT ![p].pc = "download",
                          ![p].unmapped = IF FolderOf[FileName(Cur(p))] = "_unmapped"
                                          THEN @ + 1 ELSE @]
    /\ hist' = [hist EXCEPT ![p].sel = @ \cup {Cur(p)}]
    /\ UNCHANGED prev
    /\ unchangedStores

\* Line 301: download_to_tmp returns
DownloadOk(p) ==
    /\ lam[p].pc = "download"
    /\ tmp' = [tmp EXCEPT ![p] = @ \cup {Cur(p)}]
    /\ lam' = [lam EXCEPT ![p].pc = "upload"]
    /\ hist' = [hist EXCEPT ![p].downs = @ \cup {Cur(p)}]
    /\ UNCHANGED <<notSync, env, drive, table, s3, runs, uploadedOk, raced, prev>>

\* Line 301: download_to_tmp raises, before or after open() created the file
DownloadFail(p) ==
    /\ lam[p].pc = "download"
    /\ \E created \in BOOLEAN :
         tmp' = [tmp EXCEPT ![p] = IF created THEN @ \cup {Cur(p)} ELSE @]
    /\ lam' = [lam EXCEPT ![p].pc = "failed"]
    /\ hist' = [hist EXCEPT ![p].downs = @ \cup {Cur(p)},
                            ![p].fail = [step |-> "download", file |-> Cur(p)]]
    /\ UNCHANGED <<notSync, env, drive, table, s3, runs, uploadedOk, raced, prev>>

\* Lines 304-309: upload_file_to_s3 returns, the staging file is removed
UploadOk(p) ==
    /\ lam[p].pc = "upload"
    /\ s3' = s3 \cup {KeyOf[FileName(Cur(p))]}
    /\ uploadedOk' = uploadedOk \cup {Cur(p)}
    /\ tmp' = [tmp EXCEPT ![p] = @ \ {Cur(p)}]
    /\ lam' = [lam EXCEPT ![p].pc = "commit"]
    /\ hist' = [hist EXCEPT ![p].ups = @ \cup {<<Cur(p), KeyOf[FileName(Cur(p))]>>}]
    /\ UNCHANGED <<notSync, env, drive, table, runs, raced, prev>>

\* UploadFail caught per file: the failure is noted and the loop goes on
UploadFail_Continues(p) ==
    /\ lam[p].pc = "upload"
    /\ lam' = [lam EXCEPT ![p].pc = "loop", ![p].idx = @ + 1]
    /\ hist' = [hist EXCEPT ![p].ups = @ \cup {<<Cur(p), KeyOf[FileName(Cur(p))]>>},
                            ![p].fail = [step |-> "upload", file |-> Cur(p)]]
    /\ UNCHANGED prev
    /\ unchangedStores

\* UploadFail that still commits the state (the commit in a finally block)
UploadFail_Commits(p) ==
    /\ lam[p].pc = "upload"
    /\ table' = [x \in DOMAIN table \cup {Cur(p)} |->
                    IF x = Cur(p)
                    THEN [file_name |-> FileName(Cur(p)), modifiedTime |-> lam[p].files[Cur(p)],
                          s3_bucket |-> TARGET_S3_BUCKET, s3_key |-> KeyOf[FileName(Cur(p))],
                          dataset_folder |-> FolderOf[FileName(Cur(p))]]
                    ELSE table[x]]
    /\ lam' = [lam EXCEPT ![p].pc = "failed"]
    /\ hist' = [hist EXCEPT ![p].ups = @ \cup {<<Cur(p), KeyOf[FileName(Cur(p))]>>},
                            ![p].wrote = @ \cup {Cur(p)},
                            ![p].fail = [step |-> "upload", file |-> Cur(p)]]
    /\ UNCHANGED <<notSync, env, drive, s3, tmp, runs, uploadedOk, raced, prev>>

\* Line 304: upload_file_to_s3 raises
UploadFail(p) ==
    /\ lam[p].pc = "upload"
    /\ lam' = [lam EXCEPT ![p].pc = "failed"]
    /\ hist' = [hist EXCEPT ![p].ups = @ \cup {<<Cur(p), KeyOf[FileName(Cur(p))]>>},
                            ![p].fail = [step |-> "upload", file |-> Cur(p)]]
    /\ UNCHANGED prev
    /\ unchangedStores

\* Lines 312-315: update_state returns
CommitOk(p) ==
    /\ lam[p].pc = "commit"
    /\ table' = update_state(table, Cur(p), FileName(Cur(p)), lam[p].files[Cur(p)],
                             TARGET_S3_BUCKET, KeyOf[FileName(Cur(p))])
    /\ lam' = [lam EXCEPT ![p].pc = "loop", ![p].idx = @ + 1, ![p].processed = @ + 1]
    /\ hist' = [hist EXCEPT ![p].wrote = @ \cup {Cur(p)}]
    /\ UNCHANGED <<notSync, env, drive, s3, tmp, runs, uploadedOk, raced, prev>>

\* Line 312: put_item raises
CommitFail(p) ==
    /\ lam[p].pc = "commit"
    /\ Raise(p, "put_item", Cur(p))
    /\ UNCHANGED prev
    /\ unchangedStores

\* The invocation is killed (timeout, out of memory) wherever it stands
Crash(p) ==
    /\ lam[p].pc \in {"loop", "download", "upload", "commit", "guard", "glue_start"}
    /\ Raise(p, "crash", IF lam[p].pc \in {"download", "upload", "commit"} THEN Cur(p) ELSE "none")
    /\ UNCHANGED prev
    /\ unchangedStores

\* The remote store: a file is modified, its timestamp grows
RemoteModify(f, t) ==
    /\ f \in CsvIds /\ t \in Times /\ t > drive[f]
    /\ drive' = [drive EXCEPT ![f] = t]
    /\ UNCHANGED <<notSync, env, table, s3, tmp, runs, lam, hist, prev, uploadedOk, raced>>

----------------------------------------------------------------------------
(* start_glue_job_if_needed *)

Min(a, b) == IF a <= b THEN a ELSE b

\* glue_client.get_job_runs(JobName, MaxResults): the newest runs first,
\* one page of at most max_results
get_job_runs(rs, max_results) ==
    [k \in 1..Min(Len(rs), max_results) |->
        [Id |-> Len(rs) - k + 1, JobRunState |-> rs[Len(rs) - k + 1]]]

\* FirstActive that looks for RUNNING and STOPPING only
FirstActive_RunningOnly(listing) ==
    IF \E k \in 1..Len(listing) : listing[k].JobRunState \in {"RUNNING", "STOPPING"}
    THEN CHOOSE k \in 1..Len(listing) :
            /\ listing[k].JobRunState \in {"RUNNING", "STOPPING"}
            /\ \A j \in 1..(k - 1) : listing[j].JobRunState \notin {"RUNNING", "STOPPING"}
    ELSE 0

\* Lines 225-227: the position of the first listed run that is
\* STARTING / RUNNING / STOPPING, 0 when there is none
FirstActive(listing) ==
    IF \E k \in 1..Len(listing) : listing[k].JobRunState \in NonTerminal
    THEN CHOOSE k \in 1..Len(listing) :
            /\ listing[k].JobRunState \in NonTerminal
            /\ \A j \in 1..(k - 1) : listing[j].JobRunState \notin NonTerminal
    ELSE 0

\* NothingToProcess with < for <=
NothingToProcess_Negative(processed_files) == processed_files < 0

\* NothingToProcess off by one
NothingToProcess_AtMostOne(processed_files) == processed_files <= 1

\* Line 217
NothingToProcess(processed_files) == processed_files <= 0

AnyActive(rs) == \E i \in 1..Len(rs) : rs[i] \in NonTerminal

InGuard(p) == lam[p].pc = "guard" /\ ~NothingToProcess(lam[p].processed) /\ env.job

\* another invocation stands between its run listing and its start call
OtherInWindow(p) == \E q \in Procs \ {p} : lam[q].pc = "glue_start"

\* Lines 217-218
GuardSkip(p) ==
    /\ lam[p].pc = "guard" /\ NothingToProcess(lam[p].processed)
    /\ lam' = [lam EXCEPT ![p].pc = "done",
                          ![p].glue_result = [started |-> FALSE,
                                              reason |-> "No new/changed files to process"]]
    /\ UNCHANGED <<hist, prev>>
    /\ unchangedStores

\* GuardListFail that gives up when the listing raises
GuardListFail_Blocks(p) ==
    /\ lam[p].pc = "guard" /\ lam[p].processed > 0 /\ env.job
    /\ lam' = [lam EXCEPT ![p].pc = "done",
                          ![p].glue_result = [started |-> FALSE, reason |-> "Could not check"]]
    /\ hist' = [hist EXCEPT ![p].lists = @ + 1, ![p].listed = "failed"]
    /\ UNCHANGED <<notSync, env, drive, table, s3, tmp, runs, uploadedOk, raced, prev>>

\* Lines 223-224, 233-235: get_job_runs raises, the guard goes on to start
GuardListFail(p) ==
    /\ InGuard(p)
    /\ lam' = [lam EXCEPT ![p].pc = "glue_start"]
    /\ hist' = [hist EXCEPT ![p].lists = @ + 1, ![p].listed = "failed",
                            ![p].active = AnyActive(runs), ![p].seen = Len(runs)]
    /\ raced' = (raced \/ OtherInWindow(p))
    /\ UNCHANGED <<notSync, env, drive, table, s3, tmp, runs, uploadedOk, prev>>

\* Lines 224-232: a listed run is not terminal
GuardBlocked(p) ==
    LET listing == get_job_runs(runs, MaxResults)
        k == FirstActive(listing)
    IN  /\ InGuard(p)
        /\ k # 0
        /\ lam' = [lam EXCEPT ![p].pc = "done",
                              ![p].glue_result =
                                  [started |-> FALSE,
                                   reason |-> "Glue job already " \o listing[k].JobRunState,
                                   existing_job_run_id |-> listing[k].Id]]
        /\ hist' = [hist EXCEPT ![p].lists = @ + 1, ![p].listed = "ok",
                                ![p].active = AnyActive(runs), ![p].seen = Len(runs)]
        /\ UNCHANGED prev
        /\ unchangedStores

\* Lines 224-227: no listed run is STARTING / RUNNING / STOPPING
GuardPass(p) ==
    /\ InGuard(p)
    /\ FirstActive(get_job_runs(runs, MaxResults)) = 0
    /\ lam' = [lam EXCEPT ![p].pc = "glue_start"]
    /\ hist' = [hist EXCEPT ![p].lists = @ + 1, ![p].listed = "ok",
                            ![p].active = AnyActive(runs), ![p].seen = Len(runs)]
    /\ raced' = (raced \/ OtherInWindow(p))
    /\ UNCHANGED <<notSync, env, drive, table, s3, tmp, runs, uploadedOk, prev>>

\* Lines 248-249: start_job_run returns the new run
GuardStartOk(p, cap) ==
    /\ lam[p].pc = "glue_start"
    /\ Len(runs) < cap
    /\ runs' = Append(runs, "STARTING")
    /\ lam' = [lam EXCEPT ![p].pc = "done",
                          ![p].glue_result = [started |-> TRUE, job_run_id |-> Len(runs) + 1]]
    /\ hist' = [hist EXCEPT ![p].startcalls = @ + 1, ![p].starts = @ + 1]
    /\ UNCHANGED <<notSync, env, drive, table, s3, tmp, uploadedOk, raced, prev>>

\* Line 248: start_job_run raises
GuardStartFail(p) ==
    /\ lam[p].pc = "glue_start"
    /\ lam' = [lam EXCEPT ![p].pc = "failed"]
    /\ hist' = [hist EXCEPT ![p].startcalls = @ + 1,
                            ![p].fail = [step |-> "start_job_run", file |-> "none"]]
    /\ UNCHANGED prev
    /\ unchangedStores

\* The job-execution service moves a run along
NextRunStates(st) ==
    CASE st = "STARTING" -> {"RUNNING"}
      [] st = "RUNNING"  -> {"SUCCEEDED", "STOPPING"}
      [] st = "STOPPING" -> {"STOPPED"}
      [] OTHER -> {}

RunAdvance(i) ==
    /\ i \in 1..Len(runs)
    /\ \E st \in NextRunStates(runs[i]) : runs' = [runs EXCEPT ![i] = st]
    /\ UNCHANGED <<notSync, env, drive, table, s3, tmp, lam, hist, prev, uploadedOk, raced>>

----------------------------------------------------------------------------
(* Specification of the sync Lambda: invocations one after another in one *)
(* container, every external call free to raise, the invocation free to   *)
(* be killed, the remote files and the job runs changing underneath.      *)

SeqProcs == {1}

Handler(p) ==
    \/ InvokeOk(p) \/ InvokeListFail(p)
    \/ LoopEnd(p) \/ SkipNonCsv(p) \/ SkipUnchanged(p) \/ GetItemFail(p) \/ Select(p)
    \/ DownloadOk(p) \/ DownloadFail(p)
    \/ UploadOk(p) \/ UploadFail(p)
    \/ CommitOk(p) \/ CommitFail(p)
    \/ GuardSkip(p) \/ GuardListFail(p) \/ GuardBlocked(p) \/ GuardPass(p)
    \/ GuardStartOk(p, MaxRuns) \/ GuardStartFail(p)
    \/ Crash(p)

\* The handler reads the remote folder only when it lists it and the job
\* runs only inside the guard: a change of either at any other moment is
\* seen as if it had happened just before the next read.
Environment ==
    \/ \E f \in FileIds, t \in Times :
         (\A p \in SeqProcs : Ended(p)) /\ RemoteModify(f, t)
    \/ \E i \in 1..MaxRuns :
         (\E p \in SeqProcs : lam[p].pc = "guard") /\ RunAdvance(i)

Init == InitSync

Next == (\E p \in SeqProcs : Handler(p)) \/ Environment

vars == <<syncVars, jobVars, concVars, callVars, sqlVars>>

Spec == Init /\ [][Next]_vars

----------------------------------------------------------------------------
(* The trigger guard driven on its own: start_glue_job_if_needed is called *)
(* with a processed count, as line 320 calls it, against job runs that     *)
(* the service moves along.                                                *)

\* Line 320: start_glue_job_if_needed(processed, skipped, unmapped)
CallGuard(p, n) ==
    /\ Ended(p)
    /\ lam' = [lam EXCEPT ![p] = [IdleLam EXCEPT !.pc = "guard", !.processed = n]]
    /\ hist' = [hist EXCEPT ![p] = FreshHist]
    /\ UNCHANGED prev
    /\ unchangedStores

InitGuard ==
    /\ InitSync
    /\ drive = [f \in FileIds |-> 1]

GuardSteps(p, cap) ==
    \/ \E n \in 0..MaxProcessed : CallGuard(p, n)
    \/ GuardSkip(p) \/ GuardBlocked(p) \/ GuardPass(p)
    \/ GuardStartOk(p, cap) \/ GuardStartFail(p)

NextGuard ==
    \/ GuardSteps(1, MaxGuardRuns)
    \/ GuardListFail(1)
    \/ \E i \in 1..MaxGuardRuns : lam[1].pc = "guard" /\ RunAdvance(i)

SpecGuard == InitGuard /\ [][NextGuard]_vars

\* Two overlapping invocations in the guard, every run listing succeeding
NextRace ==
    \/ \E p \in Procs : GuardSteps(p, MaxRaceRuns)
    \/ \E i \in 1..MaxRaceRuns : (\E p \in Procs : lam[p].pc = "guard") /\ RunAdvance(i)

SpecRace == InitGuard /\ [][NextRace]_vars

----------------------------------------------------------------------------
(* The sync Lambda under any combination of set and unset settings *)

Settings == {"bucket", "secret", "table", "job"}

\* Lines 256, 96, 171: require_env raises for TARGET_S3_BUCKET, for the
\* secret name or for DDB_TABLE_NAME, before the folder is listed
InvokeConfigError(p) ==
    /\ Ended(p)
    /\ ~(env.bucket /\ env.secret /\ env.table)
    /\ lam' = [lam EXCEPT ![p] = [IdleLam EXCEPT !.pc = "failed"]]
    /\ hist' = [hist EXCEPT ![p] = [FreshHist EXCEPT !.fail = [step |-> "config", file |-> "none"]]]
    /\ prev' = [prev EXCEPT ![p] = NoPrev]
    /\ unchangedStores

\* Line 220: require_env raises for GLUE_JOB_NAME, after the loop
GuardConfigError(p) ==
    /\ lam[p].pc = "guard" /\ ~NothingToProcess(lam[p].processed) /\ ~env.job
    /\ Raise(p, "config", "none")
    /\ UNCHANGED prev
    /\ unchangedStores

InitCfg ==
    /\ env \in [Settings -> BOOLEAN]
    /\ drive \in [FileIds -> Times]
    /\ drive["f3"] = 1
    /\ table = EmptyTable
    /\ s3 = {}
    /\ tmp = [p \in Procs |-> {}]
    /\ runs = <<>>
    /\ lam = [p \in Procs |-> IdleLam]
    /\ hist = [p \in Procs |-> FreshHist]
    /\ prev = [p \in Procs |-> NoPrev]
    /\ uploadedOk = {}
    /\ raced = FALSE
    /\ JobAtRest

NextCfg ==
    \/ \E p \in SeqProcs : Handler(p)
    \/ \E p \in SeqProcs : InvokeConfigError(p)
    \/ \E p \in SeqProcs : GuardConfigError(p)

SpecCfg == InitCfg /\ [][NextCfg]_vars

----------------------------------------------------------------------------
(* Overlapping invocations: two containers, each working from the listing *)
(* it took, the remote files changing at any moment.  The second          *)
(* container is invoked once; the first again and again.                  *)

\* Lines 256-269 as InvokeOk, recording whether the invocation begins alone
InvokeConc(p) ==
    /\ Ended(p)
    /\ env.bucket /\ env.secret /\ env.table
    /\ lam' = [lam EXCEPT ![p] = [IdleLam EXCEPT !.pc = "loop", !.files = drive]]
    /\ hist' = [hist EXCEPT ![p] = FreshHist]
    /\ prev' = [prev EXCEPT ![p] = Ending(p, drive)]
    /\ conc' = [q \in Procs |->
                  IF q = p
                  THEN [solo |-> \A r \in Procs \ {p} : Ended(r),
                        settled |-> /\ conc[p].solo
                                    /\ lam[p].pc = "done" \/ conc[p].settled
                                    /\ lam[p].files = drive]
                  ELSE [conc[q] EXCEPT !.solo = FALSE]]
    /\ UNCHANGED <<jobVars, callVars, sqlVars, env, drive, table, s3, tmp, runs, uploadedOk, raced>>

\* The loop with every failure of its calls; the guard's own two calls
\* return (their failure touches neither a listing nor the state store).
Transfer(p) ==
    \/ LoopEnd(p) \/ SkipNonCsv(p) \/ SkipUnchanged(p) \/ GetItemFail(p) \/ Select(p)
    \/ DownloadOk(p) \/ DownloadFail(p)
    \/ UploadOk(p) \/ UploadFail(p)
    \/ CommitOk(p) \/ CommitFail(p)
    \/ GuardSkip(p) \/ GuardBlocked(p) \/ GuardPass(p) \/ GuardStartOk(p, MaxRuns)

\* The mapped file is the one that changes; the other .csv file keeps the
\* timestamp it has, or has none.
InitConc ==
    /\ InitSync
    /\ drive["f2"] <= 1

\* An invocation reads the remote folder only when it lists it: a change
\* while both are under way is seen as if made when the first of them ends.
NextConc ==
    \/ InvokeConc(1)
    \/ lam[2].pc = "idle" /\ InvokeConc(2)
    \/ \E p \in Procs : Transfer(p)
    \/ \E t \in Times : (\E p \in Procs : Ended(p)) /\ RemoteModify("f1", t)

SpecConc == InitConc /\ [][NextConc]_vars

----------------------------------------------------------------------------
(* The transform job: run() of src/raw_to_refined.py *)

\* "sub in s" of Python
Contains(s, sub) ==
    \E n \in 1..(Len(s) + 1) :
        n + Len(sub) - 1 <= Len(s) /\ SubSeq(s, n, n + Len(sub) - 1) = sub

MissingPatterns ==
    {"path does not exist", "no such file or directory", "not found",
     "nosuchkey", "does not exist"}

\* str(e) of the exceptions a dataset's steps raise
ExcMessages ==
    {"Path does not exist: s3://bucket/raw/nh_penalties/",
     "An error occurred (NoSuchKey) when calling the GetObject operation",
     "Job aborted due to stage failure",
     ""}

is_missing_path_error(msg) == \E pat \in MissingPatterns : Contains(Lower(msg), pat)

MissingOf == [msg \in ExcMessages |-> is_missing_path_error(msg)]

\* the dataset the loop stands at and its refined location
Dataset == cfg.DATASETS[job.idx]

refined_path == RefinedPathOf[Dataset]

\* the for loop goes on to the next entry, or ends
Continue(jb) ==
    [jb EXCEPT !.idx = jb.idx + 1,
               !.pc = IF jb.idx + 1 > Len(cfg.DATASETS) THEN "summary" ELSE "read"]

\* an except clause that lets the exception of a failed dataset leave run()
OnException_Abort(jb, dataset, msg) ==
    IF cfg.SKIP_MISSING /\ MissingOf[msg]
    THEN Continue([jb EXCEPT !.results.skipped_missing =
                       Append(@, [dataset |-> dataset, reason |-> msg])])
    ELSE [jb EXCEPT !.results.failed = Append(@, [dataset |-> dataset, error |-> msg]),
                    !.pc = "raised"]

\* an except clause that takes every exception for a missing path
OnException_SkipsAll(jb, dataset, msg) ==
    IF cfg.SKIP_MISSING
    THEN Continue([jb EXCEPT !.results.skipped_missing =
                       Append(@, [dataset |-> dataset, reason |-> msg])])
    ELSE Continue([jb EXCEPT !.results.failed =
                       Append(@, [dataset |-> dataset, error |-> msg])])

\* Lines 227-235: the except clause of the loop body
OnException(jb, dataset, msg) ==
    IF cfg.SKIP_MISSING /\ MissingOf[msg]
    THEN Continue([jb EXCEPT !.results.skipped_missing =
                       Append(@, [dataset |-> dataset, reason |-> msg])])
    ELSE Continue([jb EXCEPT !.results.failed =
                       Append(@, [dataset |-> dataset, error |-> msg])])

\* the iteration of the entry at idx begins (lines 174-178); its read has not
\* returned a frame yet
Begin(jb) == [jb EXCEPT !.attempted = Append(@, Dataset), !.columns = "unread"]

\* Lines 252-253 and 172: job.init, run() begins
JobStart ==
    /\ job.pc = "idle"
    /\ job' = [IdleJob EXCEPT !.pc = IF Len(cfg.DATASETS) = 0 THEN "summary" ELSE "read"]
    /\ UNCHANGED <<cfg, refined, notJob>>

\* Lines 181-190: the read raises
ReadRaises(msg) ==
    /\ job.pc = "read"
    /\ job' = OnException(Begin(job), Dataset, msg)
    /\ UNCHANGED <<cfg, refined, notJob>>

\* Lines 193-196: the read gives a frame without columns
ReadNoColumns ==
    /\ job.pc = "read"
    /\ job' = IF cfg.SKIP_MISSING
              THEN Continue([Begin(job) EXCEPT !.columns = "zero",
                                 !.results.skipped_missing =
                                 Append(@, [dataset |-> Dataset, reason |-> "no columns"])])
              ELSE [Begin(job) EXCEPT !.pc = "transform", !.columns = "zero"]
    /\ UNCHANGED <<cfg, refined, notJob>>

\* Lines 181-193: the read gives a frame with columns
ReadOk ==
    /\ job.pc = "read"
    /\ job' = [Begin(job) EXCEPT !.pc = "transform", !.columns = "some"]
    /\ UNCHANGED <<cfg, refined, notJob>>

\* Lines 199-215: lineage, names, missing tokens, the two counts
TransformOk ==
    /\ job.pc = "transform"
    /\ job' = [job EXCEPT !.pc = "write"]
    /\ UNCHANGED <<cfg, refined, notJob>>

TransformRaises(msg) ==
    /\ job.pc = "transform"
    /\ job' = OnException(job, Dataset, msg)
    /\ UNCHANGED <<cfg, refined, notJob>>

\* Lines 218-225: the refined location holds the output of this run
WriteOk ==
    /\ job.pc = "write"
    /\ refined' = [refined EXCEPT ![refined_path] = "new"]
    /\ job' = Continue([job EXCEPT !.results.processed =
                            Append(@, [dataset |-> Dataset, refined_path |-> refined_path])])
    /\ UNCHANGED <<cfg, notJob>>

\* Lines 218-222: the write raises.  Mode overwrite clears the location
\* before it writes, so what was there may be gone; mode append leaves it.
WriteRaises(msg, cleared) ==
    /\ job.pc = "write"
    /\ cleared => cfg.WRITE_MODE = "overwrite"
    /\ refined' = IF cleared THEN [refined EXCEPT ![refined_path] = "none"] ELSE refined
    /\ job' = OnException(job, Dataset, msg)
    /\ UNCHANGED <<cfg, notJob>>

\* Line 252: job.init raises; the except of lines 256-259 raises it again
JobInitFail ==
    /\ job.pc = "idle"
    /\ job' = [IdleJob EXCEPT !.pc = "init_failed"]
    /\ UNCHANGED <<cfg, refined, notJob>>

\* SummaryRaise that does not look at FAIL_JOB_ON_DATASET_FAILURE
SummaryRaise_IgnoresOption ==
    /\ job.pc = "summary"
    /\ Len(job.results.failed) > 0
    /\ job' = [job EXCEPT !.pc = "raised"]
    /\ UNCHANGED <<cfg, refined, notJob>>

\* Lines 242-243, 256-259: RuntimeError leaves run(), the job is not committed
SummaryRaise ==
    /\ job.pc = "summary"
    /\ cfg.FAIL_JOB_ON_DATASET_FAILURE /\ Len(job.results.failed) > 0
    /\ job' = [job EXCEPT !.pc = "raised"]
    /\ UNCHANGED <<cfg, refined, notJob>>

\* Line 245: return results
SummaryReturn ==
    /\ job.pc = "summary"
    /\ ~(cfg.FAIL_JOB_ON_DATASET_FAILURE /\ Len(job.results.failed) > 0)
    /\ job' = [job EXCEPT !.pc = "returned"]
    /\ UNCHANGED <<cfg, refined, notJob>>

\* Line 254: job.commit()
JobCommit ==
    /\ job.pc = "returned"
    /\ job' = [job EXCEPT !.pc = "committed"]
    /\ UNCHANGED <<cfg, refined, notJob>>

\* Line 254: job.commit() raises; the except of lines 256-259 raises it again
JobCommitFail ==
    /\ job.pc = "returned"
    /\ job' = [job EXCEPT !.pc = "commit_failed"]
    /\ UNCHANGED <<cfg, refined, notJob>>

\* the sync Lambda has not been invoked
SyncAtRest ==
    /\ env = AllSet
    /\ drive = [f \in FileIds |-> 1]
    /\ table = EmptyTable
    /\ s3 = {}
    /\ tmp = [p \in Procs |-> {}]
    /\ runs = <<>>
    /\ lam = [p \in Procs |-> IdleLam]
    /\ hist = [p \in Procs |-> FreshHist]
    /\ prev = [p \in Procs |-> NoPrev]
    /\ uploadedOk = {}
    /\ raced = FALSE

\* One job run under any options, over refined locations that are empty or
\* hold the output of an earlier run
InitJob ==
    /\ SyncAtRest
    /\ NoCallYet
    /\ conc = [p \in Procs |-> NoConc]
    /\ cfg \in Configs
    /\ refined \in {[path \in RefinedPaths |-> st] : st \in {"none", "old"}}
    /\ job = IdleJob
    /\ RunnerAtRest

NextJob ==
    \/ JobStart
    \/ JobInitFail
    \/ \E msg \in ExcMessages : ReadRaises(msg)
    \/ ReadNoColumns
    \/ ReadOk
    \/ TransformOk
    \/ \E msg \in ExcMessages : TransformRaises(msg)
    \/ WriteOk
    \/ \E msg \in ExcMessages, cleared \in BOOLEAN : WriteRaises(msg, cleared)
    \/ SummaryRaise
    \/ SummaryReturn
    \/ JobCommit
    \/ JobCommitFail

SpecJob == InitJob /\ [][NextJob]_vars

----------------------------------------------------------------------------
(* dataset_folder_for applied to file names and rule lists *)

\* Lines 76-80 over a rule list: the for loop, rule by rule
RECURSIVE dataset_folder_in(_, _)
dataset_folder_in(rules, file_name) ==
    IF rules = <<>> THEN "_unmapped"
    ELSE IF PatternMatch(Head(rules), file_name) THEN Head(rules).folder
    ELSE dataset_folder_in(Tail(rules), file_name)

\* a name the rule accepts
SampleName(r) ==
    r.pre \o SubSeq("2024", 1, r.nd) \o r.mid \o (IF r.glob THEN "Oct2024" ELSE "") \o r.suf

\* names no rule accepts, and names that differ from an accepted one in case
\* or by an empty wildcard part
OtherNames ==
    {"unknownfile.csv", "", ".csv", "NH_Ownership_Oct2024.txt", "NH_Ownership.csv",
     "X_NH_Ownership_Oct2024.csv", "NH_Ownership_Oct2024.csv.bak",
     "FY_24_SNF_VBP_Aggregate_Performance.csv", "FY_20x4_SNF_VBP_Facility_Performance.csv",
     "FY_2024_SNF_VBP_Aggregate_Performance_v2.csv",
     "NH_Ownership_.csv", "NH_OWNERSHIP_OCT2024.CSV", "nh_penalties_Jan2025.Csv"}

RouteNames ==
    {SampleName(ROUTE_RULES[n]) : n \in 1..Len(ROUTE_RULES)}
    \cup {Lower(SampleName(ROUTE_RULES[n])) : n \in 1..Len(ROUTE_RULES)}
    \cup OtherNames

\* a rule that accepts what other rules accept too
AnyNH == Rule("NH_", 0, "", TRUE, ".csv", "nh_any")

\* the rule list of the program, the empty list, and the program's list with
\* an overlapping rule before and after it
RuleLists == {ROUTE_RULES, <<>>, <<AnyNH>> \o ROUTE_RULES, ROUTE_RULES \o <<AnyNH>>}

InitRoute ==
    /\ SyncAtRest
    /\ JobIdleState
    /\ call \in [fn : {"dataset_folder_for"}, rules : RuleLists, file_name : RouteNames]
    /\ ret = NoReturn

\* Line 291: dataset = dataset_folder_for(file_name)
CallRoute ==
    /\ call.fn = "dataset_folder_for" /\ ~ret.done
    /\ ret' = [done |-> TRUE,
               value |-> IF call.rules = ROUTE_RULES
                         THEN dataset_folder_for(call.file_name)
                         ELSE dataset_folder_in(call.rules, call.file_name)]
    /\ UNCHANGED <<call, syncVars, jobVars, concVars, sqlVars>>

NextRoute == CallRoute

SpecRoute == InitRoute /\ [][NextRoute]_vars

----------------------------------------------------------------------------
(* uniqueify applied to headers of normalized column names *)

\* str(n) of a natural number
RECURSIVE Str(_)
Str(n) == IF n < 10 THEN CharAt(Digits, n + 1) ELSE Str(n \div 10) \o CharAt(Digits, (n % 10) + 1)

\* uniqueify that numbers the repeats from 1
RECURSIVE uniqueify_FromOne(_, _, _)
uniqueify_FromOne(cols, seen, out) ==
    IF cols = <<>> THEN out
    ELSE LET c == Head(cols)
         IN  IF c \notin DOMAIN seen
             THEN uniqueify_FromOne(Tail(cols), [x \in DOMAIN seen \cup {c} |->
                                                    IF x = c THEN 0 ELSE seen[x]],
                                    Append(out, c))
             ELSE uniqueify_FromOne(Tail(cols), [seen EXCEPT ![c] = @ + 1],
                                    Append(out, c \o "_" \o Str(seen[c] + 1)))

\* Lines 108-117: the loop over cols with the dict seen and the list out
RECURSIVE uniqueify(_, _, _)
uniqueify(cols, seen, out) ==
    IF cols = <<>> THEN out
    ELSE LET c == Head(cols)
         IN  IF c \notin DOMAIN seen
             THEN uniqueify(Tail(cols), [x \in DOMAIN seen \cup {c} |->
                                            IF x = c THEN 1 ELSE seen[x]],
                            Append(out, c))
             ELSE uniqueify(Tail(cols), [seen EXCEPT ![c] = @ + 1],
                            Append(out, c \o "_" \o Str(seen[c] + 1)))

\* seen = {}
EmptyDict == [x \in {} |-> 0]

\* normalized names as headers hold them, one of them a name with a suffix
ColNames == {"state", "a", "a_2", "col"}

RECURSIVE SeqsUpTo(_, _)
SeqsUpTo(S, n) ==
    IF n = 0 THEN {<<>>}
    ELSE LET shorter == SeqsUpTo(S, n - 1)
         IN  shorter \cup {Append(q, x) : q \in shorter, x \in S}

Headers == SeqsUpTo(ColNames, MaxCols)

InitUniq ==
    /\ SyncAtRest
    /\ JobIdleState
    /\ call \in [fn : {"uniqueify"}, cols : Headers]
    /\ ret = NoReturn

\* Line 205: uniqueify([...])
CallUniq ==
    /\ call.fn = "uniqueify" /\ ~ret.done
    /\ ret' = [done |-> TRUE, value |-> uniqueify(call.cols, EmptyDict, <<>>)]
    /\ UNCHANGED <<call, syncVars, jobVars, concVars, sqlVars>>

NextUniq == CallUniq

SpecUniq == InitUniq /\ [][NextUniq]_vars

----------------------------------------------------------------------------
(* The per-dataset pipeline between read and write: lineage columns, name  *)
(* normalization, missing-value standardization (lines 198-209).  A frame  *)
(* is the sequence of its columns, each with its name, whether Spark typed *)
(* it StringType, and the value it holds in one row; role tells which      *)
(* columns withColumn set at lines 200-201.                                *)

CharsOf(s) == {CharAt(s, i) : i \in 1..Len(s)}

\* str.strip(chars): the characters of cs leave both ends
RECURSIVE StripChars(_, _)
StripChars(s, cs) ==
    IF Len(s) > 0 /\ CharAt(s, 1) \in cs THEN StripChars(SubSeq(s, 2, Len(s)), cs)
    ELSE IF Len(s) > 0 /\ CharAt(s, Len(s)) \in cs THEN StripChars(SubSeq(s, 1, Len(s) - 1), cs)
    ELSE s

RECURSIVE DropWhile(_, _)
DropWhile(s, cs) ==
    IF Len(s) > 0 /\ CharAt(s, 1) \in cs THEN DropWhile(SubSeq(s, 2, Len(s)), cs) ELSE s

\* re.sub(r"[cs]+", repl, s): every run of characters of cs becomes repl
RECURSIVE SubRuns(_, _, _)
SubRuns(s, cs, repl) ==
    IF Len(s) = 0 THEN ""
    ELSE IF CharAt(s, 1) \in cs
         THEN repl \o SubRuns(DropWhile(s, cs), cs, repl)
         ELSE CharAt(s, 1) \o SubRuns(SubSeq(s, 2, Len(s)), cs, repl)

\* re.sub(r"[^cs]", "", s): only the characters of cs stay
RECURSIVE KeepOnly(_, _)
KeepOnly(s, cs) ==
    IF Len(s) = 0 THEN ""
    ELSE (IF CharAt(s, 1) \in cs THEN CharAt(s, 1) ELSE "")
            \o KeepOnly(SubSeq(s, 2, Len(s)), cs)

\* what str.strip() takes for whitespace, as far as headers hold it
Whitespace == {" ", "\t", "\n"}

NameChars == CharsOf(LowerChars) \cup CharsOf(Digits) \cup {"_"}

normalize_col(col) ==
    LET c1 == Lower(StripChars(col, Whitespace))
        c2 == SubRuns(c1, {" ", "\t", "-", "/"}, "_")
        c3 == KeepOnly(c2, NameChars)
        c4 == SubRuns(c3, {"_"}, "_")
        c5 == StripChars(c4, {"_"})
    IN  IF c5 = "" THEN "col" ELSE c5

\* the names withColumn gives the lineage columns (lines 200-201)
SourceFileCol == "_source_file"
IngestedAtCol == "_ingested_at_utc"

\* the names standardize_missing leaves alone (line 128)
ExemptNames == {"_source_file", "_ingested_at_utc"}

\* header names of raw files: one with a separator, one that normalizes to
\* the normalized lineage name, one equal to the lineage name
RawNames == {"Provider ID", "source_file", "_source_file"}

NormalizedOf == [n \in RawNames \cup {SourceFileCol, IngestedAtCol} |-> normalize_col(n)]

MISSING_TOKENS == {"", "na", "n/a", "null", "none", ".", "nan"}

Null == [null |-> TRUE, s |-> ""]

Cell(s) == [null |-> FALSE, s |-> s]

\* F.input_file_name(): the path of the file read, or the empty string
\* where Spark has none for the row
InputFileNames == {"s3://bucket/raw/nh_ownership/NH_Ownership_Oct2024.csv", ""}

\* utc_now_iso() at line 201
IngestedAt == "2024-10-01T00:00:00+00:00"

\* what the cells of a raw textual column hold
RawStrings == {"", " NA ", "ok"}

CellStrings == RawStrings \cup InputFileNames \cup {IngestedAt, "7"}

\* F.trim(c) == "" or F.lower(F.trim(c)).isin(MISSING_TOKENS), lines 136-137
MissingOfCell ==
    [s \in CellStrings |->
        LET t == StripChars(s, {" "}) IN t = "" \/ Lower(t) \in MISSING_TOKENS]

\* the when(...) condition of lines 135-137
IsMissingCell(v) == v.null \/ MissingOfCell[v.s]

Column(name, string, value, role) ==
    [name |-> name, string |-> string, value |-> value, role |-> role]

RawColumns ==
    {Column(n, TRUE, v, "raw") : n \in RawNames, v \in {Cell(x) : x \in RawStrings} \cup {Null}}
        \cup {Column(n, FALSE, Cell("7"), "raw") : n \in RawNames}

\* the header of a frame holds no name twice
DistinctNames(df) == \A i, j \in 1..Len(df) : df[i].name = df[j].name => i = j

RawFrames == {df \in SeqsUpTo(RawColumns, MaxWidth) : df # <<>> /\ DistinctNames(df)}

\* df.withColumn(name, value): the column of that name is replaced where it
\* stands, a new one is appended
withColumn(df, name, value, role) ==
    IF \E i \in 1..Len(df) : df[i].name = name
    THEN [i \in 1..Len(df) |->
            IF df[i].name = name THEN Column(name, TRUE, value, role) ELSE df[i]]
    ELSE Append(df, Column(name, TRUE, value, role))

\* df.toDF(*names): the columns renamed by position
toDF(df, names) == [i \in 1..Len(df) |-> [df[i] EXCEPT !.name = names[i]]]

standardize_missing(df_in) ==
    [i \in 1..Len(df_in) |->
        IF df_in[i].name \in ExemptNames THEN df_in[i]
        ELSE IF df_in[i].string
             THEN [df_in[i] EXCEPT !.value = IF IsMissingCell(@) THEN Null ELSE @]
             ELSE df_in[i]]

InitPipe ==
    /\ SyncAtRest
    /\ JobIdleState
    /\ call \in [fn : {"pipeline"}, df : RawFrames, file : InputFileNames]
    /\ ret = NoReturn

\* Lines 199-202: the lineage columns are set
PipeLineage ==
    /\ call.fn = "pipeline" /\ ret = NoReturn
    /\ ret' = [done |-> FALSE, at |-> "normalize",
               df |-> withColumn(withColumn(call.df, SourceFileCol, Cell(call.file), "source"),
                                 IngestedAtCol, Cell(IngestedAt), "ingested")]
    /\ UNCHANGED <<call, syncVars, jobVars, concVars, sqlVars>>

\* Lines 205-206: the names are normalized and made distinct
PipeNormalize ==
    /\ call.fn = "pipeline" /\ ret # NoReturn /\ ret.at = "normalize"
    /\ ret' = [ret EXCEPT !.at = "standardize",
                          !.df = toDF(@, uniqueify([i \in 1..Len(@) |-> NormalizedOf[@[i].name]],
                                                   EmptyDict, <<>>))]
    /\ UNCHANGED <<call, syncVars, jobVars, concVars, sqlVars>>

\* Line 209: df = standardize_missing(df)
PipeStandardize ==
    /\ call.fn = "pipeline" /\ ret # NoReturn /\ ret.at = "standardize"
    /\ ret' = [done |-> TRUE, at |-> "dedup", df |-> ret.df,
               value |-> standardize_missing(ret.df)]
    /\ UNCHANGED <<call, syncVars, jobVars, concVars, sqlVars>>

NextPipe == PipeLineage \/ PipeNormalize \/ PipeStandardize

SpecPipe == InitPipe /\ [][NextPipe]_vars

----------------------------------------------------------------------------
(* The SQL script runner: run_athena_sql.py.  One invocation of its        *)
(* lambda_handler over the objects of the SQL bucket, one action per step  *)
(* between two external calls, every call free to raise; the query         *)
(* execution service moves the queries along underneath.                   *)

\* the characters of keys in code-point order, as list.sort() compares them
CodePoints == "./" \o Digits \o UpperChars \o "_" \o LowerChars

CodePoint(c) == CHOOSE i \in 1..Len(CodePoints) : CharAt(CodePoints, i) = c

\* a < b for two str
RECURSIVE StrLess(_, _)
StrLess(a, b) ==
    IF Len(b) = 0 THEN FALSE
    ELSE IF Len(a) = 0 THEN TRUE
    ELSE IF CharAt(a, 1) = CharAt(b, 1)
         THEN StrLess(SubSeq(a, 2, Len(a)), SubSeq(b, 2, Len(b)))
         ELSE CodePoint(CharAt(a, 1)) < CodePoint(CharAt(b, 1))

SQL_PREFIX == StripSlashes("/q/") \o "/"

\* keys the bucket may hold under the prefix: two scripts, one script with an
\* upper-case extension, one that sorts as text and not as a number, and an
\* object that is no script
ObjectKeys ==
    {SQL_PREFIX \o n : n \in {"001_a.sql", "002_b.SQL", "10_c.sql", "readme.txt"}}

\* the text of an object: a statement, or white space only
ObjectTexts == {"SELECT 1", " \n"}

KeyLess == [a \in ObjectKeys, b \in ObjectKeys |-> StrLess(a, b)]

SqlKeyOf == [k \in ObjectKeys |-> EndsWith(Lower(k), ".sql")]

\* get_sql(...).strip() is empty
BlankOf == [t \in ObjectTexts |-> StripChars(t, Whitespace) = ""]

\* list.sort(): the keys in ascending order
RECURSIVE SortKeys(_)
SortKeys(S) ==
    IF S = {} THEN <<>>
    ELSE LET least == CHOOSE k \in S : \A x \in S \ {k} : KeyLess[k, x]
         IN  <<least>> \o SortKeys(S \ {least})

\* Lines 20-40: the keys of all pages that end in .sql, sorted
list_sql_keys(objs) == SortKeys({k \in DOMAIN objs : SqlKeyOf[k]})

MAX_POLLS == MaxPolls

QueryStates == {"QUEUED", "RUNNING", "SUCCEEDED", "FAILED", "CANCELLED"}

FinalStates == {"SUCCEEDED", "FAILED", "CANCELLED"}

\* the key the loop of the runner stands at
SqlKey == runner.keys[runner.idx]

\* an exception leaves the runner's lambda_handler
SqlRaise(r, error) == [r EXCEPT !.pc = "raised", !.error = error]

\* the for loop goes on to the next key, or ends and lines 93-97 return
NextKey(r) ==
    [r EXCEPT !.idx = @ + 1,
              !.pc = IF r.idx + 1 > Len(r.keys) THEN "returned" ELSE "get"]

\* the loop body after wait_for_query that goes on whatever the state was
AfterQuery_IgnoresState(r, state) ==
    NextKey([r EXCEPT !.results =
                Append(@, [sql_key |-> r.keys[r.idx], query_execution_id |-> r.qid,
                           state |-> state])])

\* Lines 85-91: the result is noted, a state other than SUCCEEDED raises
AfterQuery(r, state) ==
    LET noted == [r EXCEPT !.results =
                     Append(@, [sql_key |-> r.keys[r.idx], query_execution_id |-> r.qid,
                                state |-> state])]
    IN  IF state # "SUCCEEDED" THEN SqlRaise(noted, "query") ELSE NextKey(noted)

\* Lines 70-74: the keys are listed; without any the handler returns
SqlInvoke ==
    /\ runner.pc = "idle"
    /\ runner' = LET keys == list_sql_keys(objects)
                 IN  [runner EXCEPT !.keys = keys,
                                    !.pc = IF keys = <<>> THEN "returned" ELSE "get"]
    /\ UNCHANGED <<objects, queries, syncVars, jobVars, concVars, callVars>>

\* Line 28: list_objects_v2 raises
SqlListFail ==
    /\ runner.pc = "idle"
    /\ runner' = SqlRaise(runner, "list")
    /\ UNCHANGED <<objects, queries, syncVars, jobVars, concVars, callVars>>

\* Lines 76-79: the script is read; an empty one is skipped
SqlGet ==
    /\ runner.pc = "get"
    /\ runner' = IF BlankOf[objects[SqlKey]] THEN NextKey(runner)
                 ELSE [runner EXCEPT !.pc = "start"]
    /\ UNCHANGED <<objects, queries, syncVars, jobVars, concVars, callVars>>

\* Line 76: get_object raises
SqlGetFail ==
    /\ runner.pc = "get"
    /\ runner' = SqlRaise(runner, "get")
    /\ UNCHANGED <<objects, queries, syncVars, jobVars, concVars, callVars>>

\* Line 82: start_query returns the id of the new query execution
SqlStart ==
    /\ runner.pc = "start"
    /\ queries' = Append(queries, [key |-> SqlKey, state |-> "QUEUED"])
    /\ runner' = [runner EXCEPT !.pc = "wait", !.qid = Len(queries) + 1, !.polls = 0]
    /\ UNCHANGED <<objects, syncVars, jobVars, concVars, callVars>>

\* Line 82: start_query_execution raises, no query was started
SqlStartFail ==
    /\ runner.pc = "start"
    /\ runner' = SqlRaise(runner, "start")
    /\ UNCHANGED <<objects, queries, syncVars, jobVars, concVars, callVars>>

\* Lines 59-64 and 85-91: one get_query_execution; a final state ends the
\* wait, any other is slept on
SqlPoll ==
    /\ runner.pc = "wait" /\ runner.polls < MAX_POLLS
    /\ runner' = IF queries[runner.qid].state \in FinalStates
                 THEN AfterQuery(runner, queries[runner.qid].state)
                 ELSE [runner EXCEPT !.polls = @ + 1]
    /\ UNCHANGED <<objects, queries, syncVars, jobVars, concVars, callVars>>

\* Line 60: get_query_execution raises
SqlPollFail ==
    /\ runner.pc = "wait" /\ runner.polls < MAX_POLLS
    /\ runner' = SqlRaise(runner, "poll")
    /\ UNCHANGED <<objects, queries, syncVars, jobVars, concVars, callVars>>

\* Line 66: MAX_POLLS polls saw no final state
SqlTimeout ==
    /\ runner.pc = "wait" /\ runner.polls = MAX_POLLS
    /\ runner' = SqlRaise(runner, "timeout")
    /\ UNCHANGED <<objects, queries, syncVars, jobVars, concVars, callVars>>

\* the states a query execution may go to
NextQueryStates(st) ==
    CASE st = "QUEUED" -> {"RUNNING", "FAILED", "CANCELLED"}
      [] st = "RUNNING" -> {"SUCCEEDED", "FAILED", "CANCELLED"}
      [] OTHER -> {}

\* The query execution service moves a query along
QueryAdvance(i) ==
    /\ i \in 1..Len(queries)
    /\ \E st \in NextQueryStates(queries[i].state) :
         queries' = [queries EXCEPT ![i].state = st]
    /\ UNCHANGED <<objects, runner, syncVars, jobVars, concVars, callVars>>

\* One invocation over any objects under the prefix
InitSql ==
    /\ SyncAtRest
    /\ NoCallYet
    /\ conc = [p \in Procs |-> NoConc]
    /\ cfg = DefaultConfig
    /\ refined = [path \in RefinedPaths |-> "none"]
    /\ job = IdleJob
    /\ objects \in UNION {[K -> ObjectTexts] : K \in SUBSET ObjectKeys}
    /\ queries = <<>>
    /\ runner = IdleRunner

\* The runner reads a query's state only when it polls it: the service's
\* moves while the runner is elsewhere are seen as made before the poll.
NextSql ==
    \/ SqlInvoke \/ SqlListFail
    \/ SqlGet \/ SqlGetFail
    \/ SqlStart \/ SqlStartFail
    \/ SqlPoll \/ SqlPollFail \/ SqlTimeout
    \/ \E i \in 1..Len(queries) : runner.pc = "wait" /\ QueryAdvance(i)

SpecSql == InitSql /\ [][NextSql]_vars

----------------------------------------------------------------------------
(* Claims about the sync Lambda and its trigger guard *)

\* position of a file in the listing
Pos(f) == CHOOSE i \in 1..Len(FileOrder) : FileOrder[i] = f

\* the number of accepted (.csv) files of a listing
N == Cardinality(CsvIds)

ActiveRuns == {i \in 1..Len(runs) : runs[i] \in NonTerminal}

\* C1: crash safety.  When the upload of a file raises, the invocation has
\* written no SyncState item for that file and the file is still one the loop
\* would transfer (Spec: invocations one after another); and when the next
\* invocation works from the same listing it does not skip the file, uploads
\* it to the same destination key, and once it is past the file the item and
\* the object are there.
C1_CrashSafety ==
    \A p \in SeqProcs :
        /\ (lam[p].pc = "failed" /\ hist[p].fail.step = "upload") =>
              LET f == hist[p].fail.file
              IN  /\ f \notin hist[p].wrote
                  /\ Decide(table, FileName(f), lam[p].files[f], f) = "process"
        /\ (prev[p].upfail # "none" /\ prev[p].same) =>
              LET f == prev[p].upfail
              IN  /\ \A u \in hist[p].ups : u[1] = f => u[2] = prev[p].upkey
                  /\ lam[p].idx > Pos(f) =>
                        /\ f \in hist[p].sel /\ f \in hist[p].wrote
                        /\ prev[p].upkey \in s3
                        /\ f \in DOMAIN table /\ table[f].s3_key = prev[p].upkey

\* C1 witness: the invocation after a failed upload, same listing, has
\* transferred and committed the file whose upload had failed
C1_Witness ==
    \E p \in SeqProcs :
        /\ prev[p].upfail # "none" /\ prev[p].same
        /\ prev[p].upfail \in hist[p].wrote
        /\ lam[p].pc = "done"

\* C2 as claimed: an item exists for a file identifier if and only if an
\* upload for it has completed at least once
C2_Claim == \A f \in FileIds : (f \in DOMAIN table) <=> (f \in uploadedOk)

\* C2 amended: an item exists only if an upload for that identifier has
\* completed (and the object is at the key the item names); what an
\* invocation has written it had uploaded before, without error
C2_OnlyAfterUpload ==
    /\ \A f \in DOMAIN table : f \in uploadedOk /\ table[f].s3_key \in s3
    /\ \A p \in SeqProcs : \A f \in hist[p].wrote :
          /\ <<f, KeyOf[FileName(f)]>> \in hist[p].ups
          /\ ~(hist[p].fail.step = "upload" /\ hist[p].fail.file = f)

\* C2 witness: one file committed, another uploaded and not committed
\* because the invocation ended between the upload and update_state
C2_Witness ==
    /\ lam[1].pc = "failed"
    /\ \E f \in DOMAIN table : f \in hist[1].wrote
    /\ \E g \in uploadedOk : g \notin DOMAIN table

\* what a re-run over the same listing must look like
NothingDone(p) ==
    /\ hist[p].sel = {} /\ hist[p].downs = {} /\ hist[p].ups = {} /\ hist[p].wrote = {}
    /\ lam[p].processed = 0
    /\ lam[p].pc = "done" => lam[p].skipped = N

\* C3 as claimed: after a completed invocation, a re-run on the identical
\* listing processes 0 and skips N files, transfers and writes nothing
C3_Claim ==
    \A p \in SeqProcs : (prev[p].completed /\ prev[p].same) => NothingDone(p)

\* C3 amended: the same, for a listing whose .csv files all carry a
\* modification timestamp
C3_Idempotent ==
    \A p \in SeqProcs :
        (prev[p].completed /\ prev[p].same /\ \A f \in CsvIds : lam[p].files[f] # 0)
            => NothingDone(p)

\* C3 witness: a completed re-run over the same, fully timestamped listing
C3_Witness ==
    \E p \in SeqProcs :
        /\ prev[p].completed /\ prev[p].same /\ \A f \in CsvIds : lam[p].files[f] # 0
        /\ lam[p].pc = "done" /\ lam[p].skipped = N

\* what should_process_file is to return
ShouldProcessSpec(tbl, f, c) ==
    \/ f \notin DOMAIN tbl
    \/ tbl[f].modifiedTime = 0
    \/ c > tbl[f].modifiedTime

\* the loop of p decides on a timestamped .csv file in this step
DecidesNow(p) ==
    /\ InLoop(p) /\ CsvOf[FileName(Cur(p))] /\ lam[p].files[Cur(p)] # 0
    /\ lam'[p] # lam[p] /\ lam'[p].pc \in {"loop", "download"}

\* C4: should_process_file is true for an identifier without item, true for
\* an item whose stored timestamp is empty, and otherwise true exactly when
\* the candidate is strictly greater; the step that asks it transfers the
\* file or counts it skipped accordingly and leaves the state store as it is.
C4_ShouldProcess ==
    [][ /\ \A f \in FileIds, c \in 1..MaxTime :
              should_process_file(table, f, c) <=> ShouldProcessSpec(table, f, c)
        /\ \A p \in SeqProcs : DecidesNow(p) =>
              /\ table' = table
              /\ IF ShouldProcessSpec(table, Cur(p), lam[p].files[Cur(p)])
                 THEN lam'[p].pc = "download" /\ lam'[p].skipped = lam[p].skipped
                 ELSE /\ lam'[p].pc = "loop" /\ lam'[p].idx = lam[p].idx + 1
                      /\ lam'[p].skipped = lam[p].skipped + 1 ]_vars

\* C4 witness: the loop stands at a file whose stored timestamp equals the
\* candidate, while another item holds an empty timestamp and a third
\* identifier has no item
C4_Witness ==
    \E p \in SeqProcs :
        /\ InLoop(p) /\ Cur(p) = "f2"
        /\ "f2" \in DOMAIN table /\ table["f2"].modifiedTime # 0
        /\ table["f2"].modifiedTime = lam[p].files["f2"]
        /\ "f1" \in DOMAIN table /\ table["f1"].modifiedTime = 0
        /\ "f3" \notin DOMAIN table

\* C5: with processed = 0 the guard returns not-started with the reason
\* "No new/changed files to process" and has called neither get_job_runs nor
\* start_job_run, whatever the job runs are
C5_NothingToProcess ==
    \A p \in SeqProcs :
        lam[p].processed = 0 =>
            /\ hist[p].lists = 0 /\ hist[p].startcalls = 0 /\ hist[p].starts = 0
            /\ lam[p].pc = "done" =>
                  lam[p].glue_result =
                      [started |-> FALSE, reason |-> "No new/changed files to process"]

\* C5 witness: an invocation returned with processed = 0 while a run is in flight
C5_Witness ==
    \E p \in SeqProcs :
        /\ lam[p].pc = "done" /\ lam[p].processed = 0
        /\ lam[p].glue_result.reason = "No new/changed files to process"
        /\ ActiveRuns # {}

\* C6 as claimed: a guard with processed > 0 whose run listing succeeded
\* while a run of the job was STARTING / RUNNING / STOPPING starts no run and
\* returns not-started with that run's identifier
C6_Claim ==
    (hist[1].listed = "ok" /\ hist[1].active) =>
        /\ lam[1].pc = "done"
        /\ hist[1].startcalls = 0
        /\ ~lam[1].glue_result.started
        /\ "existing_job_run_id" \in DOMAIN lam[1].glue_result

\* C7 as claimed (every listing of SpecRace succeeds): at most one run is
\* non-terminal at any time
C7_Claim == Cardinality(ActiveRuns) <= 1

\* C7 amended: at most one run is non-terminal as long as no two invocations
\* have stood between their run listing and their start call at the same time
C7_Serial == ~raced => Cardinality(ActiveRuns) <= 1

\* C7 witness: without any overlap, a guard was blocked by the run in flight
C7_Witness ==
    /\ ~raced
    /\ \E p \in Procs :
          /\ lam[p].pc = "done" /\ "existing_job_run_id" \in DOMAIN lam[p].glue_result
          /\ lam[p].glue_result.existing_job_run_id \in ActiveRuns

\* C8 as claimed: an invocation starts the job at most once, and one that
\* returns having transferred a file has started it exactly once
C8_Claim ==
    \A p \in SeqProcs :
        /\ hist[p].starts <= 1
        /\ (lam[p].pc = "done" /\ lam[p].processed > 0) => hist[p].starts = 1

\* C8 amended: an invocation calls start_job_run at most once and only after
\* it transferred a file; one that returns with processed > 0 has started
\* the job exactly once, unless its run listing showed a run in flight: then
\* it has started none and reports that run
C8_OncePerBatch ==
    \A p \in SeqProcs :
        /\ hist[p].startcalls <= 1 /\ hist[p].starts <= hist[p].startcalls
        /\ hist[p].startcalls = 1 => lam[p].processed > 0
        /\ (lam[p].pc = "done" /\ lam[p].processed > 0) =>
              \/ /\ hist[p].starts = 1
                 /\ lam[p].glue_result.started
              \/ /\ hist[p].starts = 0 /\ hist[p].startcalls = 0
                 /\ hist[p].listed = "ok" /\ hist[p].active
                 /\ ~lam[p].glue_result.started
                 /\ "existing_job_run_id" \in DOMAIN lam[p].glue_result

\* C8 witness: an invocation that transferred a file was blocked by the run
\* the previous batch had started
C8_Witness ==
    \E p \in SeqProcs :
        /\ lam[p].pc = "done" /\ lam[p].processed > 0
        /\ hist[p].starts = 0
        /\ "existing_job_run_id" \in DOMAIN lam[p].glue_result

\* C9 as claimed: after a failed run listing the guard does not fail: it
\* returns started
C9_Claim ==
    \A p \in SeqProcs :
        (hist[p].listed = "failed" /\ lam[p].pc \in {"done", "failed"}
            /\ hist[p].fail.step # "crash")
          => lam[p].pc = "done" /\ lam[p].glue_result.started

\* C9 amended: after a failed run listing the guard never returns
\* not-started: it goes on to exactly one start_job_run call, and returns
\* started with the identifier of the run that call created when the call
\* returns; when the call raises, the error leaves the guard
C9_CheckFailure ==
    \A p \in SeqProcs :
        hist[p].listed = "failed" =>
            /\ lam[p].processed > 0 /\ hist[p].lists = 1
            /\ lam[p].pc \in {"glue_start", "done", "failed"}
            /\ lam[p].pc = "glue_start" => hist[p].startcalls = 0
            /\ lam[p].pc = "done" =>
                  /\ hist[p].startcalls = 1 /\ hist[p].starts = 1
                  /\ DOMAIN lam[p].glue_result = {"started", "job_run_id"}
                  /\ lam[p].glue_result.started
                  /\ lam[p].glue_result.job_run_id > hist[p].seen
                  /\ lam[p].glue_result.job_run_id <= Len(runs)
            /\ lam[p].pc = "failed" =>
                  \/ hist[p].fail.step = "start_job_run" /\ hist[p].startcalls = 1
                                                         /\ hist[p].starts = 0
                  \/ hist[p].fail.step = "crash" /\ hist[p].startcalls = 0

\* C9 witness: the listing raised and the guard returned started
C9_Witness ==
    \E p \in SeqProcs :
        /\ hist[p].listed = "failed" /\ lam[p].pc = "done"
        /\ lam[p].glue_result.started /\ hist[p].startcalls = 1


----------------------------------------------------------------------------
(* Claims about the transform job *)

\* entries of the three result lists that name the dataset
Recorded(d) ==
    Cardinality({n \in 1..Len(job.results.processed) : job.results.processed[n].dataset = d})
    + Cardinality({n \in 1..Len(job.results.skipped_missing) : job.results.skipped_missing[n].dataset = d})
    + Cardinality({n \in 1..Len(job.results.failed) : job.results.failed[n].dataset = d})

\* entries among the first n of the list that name the dataset
Listed(d, n) == Cardinality({m \in 1..n : cfg.DATASETS[m] = d})

\* entries whose iteration is over
Finished == IF job.pc \in {"transform", "write"} THEN job.idx - 1 ELSE Len(job.attempted)

RunOver == job.pc \in {"summary", "raised", "returned", "committed"}

\* the attempts are the entries of the list, each once, in list order, and
\* every finished entry is in exactly one result list
AttemptedInOrder ==
    /\ Len(job.attempted) <= Len(cfg.DATASETS)
    /\ job.attempted = SubSeq(cfg.DATASETS, 1, Len(job.attempted))
    /\ Len(job.results.processed) + Len(job.results.skipped_missing)
         + Len(job.results.failed) = Finished
    /\ \A d \in DatasetNames : Recorded(d) = Listed(d, Finished)
    /\ RunOver => job.attempted = cfg.DATASETS

\* the output of every entry recorded processed is at its refined location
OutputsKept ==
    \A n \in 1..Len(job.results.processed) :
        refined[job.results.processed[n].refined_path] = "new"

NoRepeat == \A m, n \in 1..Len(cfg.DATASETS) : cfg.DATASETS[m] = cfg.DATASETS[n] => m = n

\* C10 as stated: dataset isolation.  In a run of the transform job every
\* entry of the dataset list is attempted once, in list order, and ends in
\* exactly one of processed / skipped-missing / failed whatever the other
\* entries raise; the run is over only when all were attempted; and the
\* output of an entry recorded processed is not removed by a later failure.
C10_Claim == AttemptedInOrder /\ OutputsKept

\* C10, amended: the same for a dataset list that names no dataset twice;
\* for any list the attempts and the result lists are as stated.
C10_Isolation == AttemptedInOrder /\ (NoRepeat => OutputsKept)

\* A processed, B skipped-missing, C failed with an unrelated fault
C10_Witness ==
    /\ job.pc = "summary"
    /\ Len(cfg.DATASETS) = 3 /\ NoRepeat /\ cfg.SKIP_MISSING
    /\ Len(job.results.processed) = 1 /\ job.results.processed[1].dataset = cfg.DATASETS[1]
    /\ Len(job.results.skipped_missing) = 1
    /\ job.results.skipped_missing[1].dataset = cfg.DATASETS[2]
    /\ MissingOf[job.results.skipped_missing[1].reason]
    /\ Len(job.results.failed) = 1 /\ job.results.failed[1].dataset = cfg.DATASETS[3]
    /\ ~MissingOf[job.results.failed[1].error]
    /\ refined[job.results.processed[1].refined_path] = "new"

\* the job run ended with an exception leaving the script, uncommitted
Signaled == job.pc \in {"raised", "init_failed", "commit_failed"}

JobEnded == Signaled \/ job.pc = "committed"

AnyFailed == cfg.FAIL_JOB_ON_DATASET_FAILURE /\ Len(job.results.failed) > 0

\* C11 as stated: aggregate run failure.  A job run that has ended was
\* signaled as failed (exception propagated, not committed) if and only if
\* FAIL_JOB_ON_DATASET_FAILURE is set and a dataset was recorded failed, and
\* only after every entry was attempted; otherwise it is committed.
C11_Claim ==
    /\ JobEnded => (Signaled <=> AnyFailed)
    /\ Signaled => job.attempted = cfg.DATASETS
    /\ (JobEnded /\ ~AnyFailed) => job.pc = "committed"

\* C11, amended: run() raises if and only if the option is set and a dataset
\* was recorded failed, and then only after every entry was attempted;
\* otherwise run() returns the report and job.commit() is called, and the
\* job is committed when that call returns.  A job run is also signaled as
\* failed, whatever the datasets did, when job.init or job.commit raises.
C11_AggregateFailure ==
    [][ /\ job.pc = "summary" => job'.pc = IF AnyFailed THEN "raised" ELSE "returned"
        /\ job'.pc = "raised" => job.pc = "summary" /\ AnyFailed'
        /\ job'.pc \in {"summary", "raised", "returned", "committed", "commit_failed"} =>
              job'.attempted = cfg.DATASETS
        /\ job'.pc \in {"returned", "committed", "commit_failed"} => ~AnyFailed'
        /\ job'.pc \in {"committed", "commit_failed"} => job.pc = "returned"
        /\ job'.pc = "init_failed" => job.pc = "idle" /\ job'.results = NoResults ]_vars

\* C11 witness: the first of three entries failed, a later one was
\* processed, and the run was signaled as failed after the last
C11_Witness ==
    /\ job.pc = "raised"
    /\ Len(cfg.DATASETS) = 3
    /\ Len(job.results.failed) = 1 /\ job.results.failed[1].dataset = cfg.DATASETS[1]
    /\ Len(job.results.processed) > 0

\* the messages that match one of the not-found patterns
NotFoundOf ==
    [msg \in ExcMessages \cup {"no columns"} |->
        \E pat \in MissingPatterns : Contains(Lower(msg), pat)]

NotFoundMessage(msg) == NotFoundOf[msg]

Last(q) == q[Len(q)]

\* what the result lists may hold
Classified ==
    /\ \A n \in 1..Len(job.results.skipped_missing) :
          /\ cfg.SKIP_MISSING
          /\ \/ job.results.skipped_missing[n].reason = "no columns"
             \/ NotFoundMessage(job.results.skipped_missing[n].reason)
    /\ \A n \in 1..Len(job.results.failed) :
          ~(cfg.SKIP_MISSING /\ NotFoundMessage(job.results.failed[n].error))
    /\ (job.columns = "zero" /\ cfg.SKIP_MISSING) =>
          /\ job.pc \notin {"transform", "write"}
          /\ job.results.skipped_missing # <<>>
          /\ Last(job.results.skipped_missing) =
                [dataset |-> Last(job.attempted), reason |-> "no columns"]

\* C18: dataset outcome classification.  An entry is recorded
\* skipped-missing only with SKIP_MISSING set, and then when its read gave
\* zero columns or one of its steps raised a message that matches a
\* not-found pattern; every other exception, and every exception with
\* SKIP_MISSING unset, is recorded failed; an entry is recorded processed
\* only by the step in which its refined write returns.
C18_Classification ==
    [][ /\ Classified'
        /\ job'.results.processed # job.results.processed =>
              /\ job.pc = "write"
              /\ refined'[refined_path] = "new"
              /\ job'.results.processed =
                    Append(job.results.processed,
                           [dataset |-> Dataset, refined_path |-> refined_path])
              /\ job'.results.failed = job.results.failed
              /\ job'.results.skipped_missing = job.results.skipped_missing ]_vars

\* C18 witness: with SKIP_MISSING set, one entry skipped for zero columns,
\* one skipped for a not-found message, one failed with another message
C18_Witness ==
    /\ cfg.SKIP_MISSING
    /\ Len(job.results.skipped_missing) = 2 /\ Len(job.results.failed) = 1
    /\ job.results.skipped_missing[1].reason = "no columns"
    /\ NotFoundMessage(job.results.skipped_missing[2].reason)
    /\ ~NotFoundMessage(job.results.failed[1].error)

----------------------------------------------------------------------------
(* Claims about the settings of the sync Lambda *)

AllRequiredSet == \A k \in Settings : env[k]

\* C12 as stated: configuration errors fail fast.  With a required setting
\* (bucket, secret name, table name, job name) unset, an invocation
\* downloads and uploads no file and writes no SyncState item.
C12_Claim ==
    ~AllRequiredSet =>
        \A p \in SeqProcs :
            hist[p].downs = {} /\ hist[p].ups = {} /\ hist[p].wrote = {}

----------------------------------------------------------------------------
(* Claims about the staging files and the end of a batch *)

\* C13 as stated: staging release.  When the download or the upload of a
\* file raises, the staging file of that transfer is deleted on the way out:
\* an invocation that ended so has left no staging file of its own.
C13_Claim ==
    \A p \in SeqProcs :
        (lam[p].pc = "failed" /\ hist[p].fail.step \in {"download", "upload"})
            => hist[p].fail.file \notin tmp[p]


\* the files an invocation has selected, downloaded, uploaded or committed
Touched(p) ==
    hist[p].sel \cup hist[p].downs \cup {u[1] : u \in hist[p].ups} \cup hist[p].wrote

\* C17: batch abort.  When the download, the upload or the state commit of
\* a selected file raises, the invocation ends there with the error: the
\* items it committed for earlier files remain, it has touched no file that
\* comes later in the listing and has not committed the failing one, and it
\* has not entered the guard: no run listing, no start call, no run started.
C17_BatchAbort ==
    \A p \in SeqProcs :
        /\ hist[p].fail.step # "none" => lam[p].pc = "failed"
        /\ (lam[p].pc = "failed" /\ hist[p].fail.step \in {"download", "upload", "put_item"}) =>
              LET f == hist[p].fail.file
              IN  /\ lam[p].idx = Pos(f)
                  /\ f \in hist[p].sel /\ f \notin hist[p].wrote
                  /\ \A g \in Touched(p) : Pos(g) <= Pos(f)
                  /\ \A g \in hist[p].wrote :
                        g \in DOMAIN table /\ table[g].modifiedTime = lam[p].files[g]
                  /\ lam[p].processed = Cardinality(hist[p].wrote)
                  /\ hist[p].lists = 0 /\ hist[p].startcalls = 0 /\ hist[p].starts = 0
                  /\ lam[p].glue_result = NoResult

\* C17 witness: the upload of the second selected file raised after the
\* first was committed
C17_Witness ==
    \E p \in SeqProcs :
        /\ lam[p].pc = "failed" /\ hist[p].fail = [step |-> "upload", file |-> "f2"]
        /\ hist[p].wrote = {"f1"} /\ lam[p].processed = 1
        /\ "f2" \notin DOMAIN table

----------------------------------------------------------------------------
(* Claims about files without modification timestamp *)

\* the .csv files that the listing of p carries without timestamp
Untimed(p) == {f \in CsvIds : lam[p].files[f] = 0}

\* the loop of p stands at file f and takes its step
StepsAt(p, f) == InLoop(p) /\ Cur(p) = f /\ lam'[p] # lam[p]

\* C19: a .csv file listed without modification timestamp is selected for
\* transfer by the step that reaches it, with no get_item call and no
\* skipped count; an invocation that gets through its loop has transferred
\* and committed every such file; the item it commits holds the empty
\* timestamp, and for an item with the empty timestamp should_process_file
\* is true of every timestamp, so that a later invocation that lists the
\* file with a timestamp selects it.
C19_Untimed ==
    [][ \A p \in SeqProcs :
          /\ \A f \in Untimed(p) : StepsAt(p, f) =>
                /\ table' = table
                /\ lam'[p].skipped = lam[p].skipped
                /\ \/ lam'[p].pc = "download" /\ f \in hist'[p].sel
                   \/ lam'[p].pc = "failed" /\ hist'[p].fail.step = "crash"
          /\ lam'[p].skipped <= Cardinality(CsvIds \ Untimed(p)')
          /\ lam'[p].pc \in {"guard", "done"} =>
                /\ Untimed(p)' \subseteq hist'[p].wrote
                /\ Untimed(p)' \subseteq hist'[p].downs
                /\ \A f \in Untimed(p)' : <<f, KeyOf[FileName(f)]>> \in hist'[p].ups
          /\ (lam[p].pc = "commit" /\ Cur(p) \in Untimed(p) /\ table' # table) =>
                table'[Cur(p)].modifiedTime = 0
          /\ \A f \in DOMAIN table' : table'[f].modifiedTime = 0 =>
                \A c \in 1..MaxTime : should_process_file(table', f, c)
          /\ \A f \in CsvIds \ Untimed(p) :
                (StepsAt(p, f) /\ f \in DOMAIN table /\ table[f].modifiedTime = 0) =>
                    /\ lam'[p].skipped = lam[p].skipped
                    /\ \/ lam'[p].pc = "download" /\ f \in hist'[p].sel
                       \/ lam'[p].pc = "failed"
                          /\ hist'[p].fail.step \in {"crash", "get_item"} ]_vars

\* C19 witness: an invocation that follows a completed one has transferred
\* and committed again the file f1 that carries no timestamp, and has
\* selected f2, listed with a timestamp now, whose item holds the empty one
C19_Witness ==
    \E p \in SeqProcs :
        /\ prev[p].completed
        /\ "f1" \in Untimed(p) /\ "f1" \in hist[p].wrote /\ lam[p].skipped = 0
        /\ table["f1"].modifiedTime = 0
        /\ lam[p].pc = "download" /\ Cur(p) = "f2" /\ lam[p].files["f2"] # 0
        /\ "f2" \in DOMAIN table /\ table["f2"].modifiedTime = 0

----------------------------------------------------------------------------
(* Claims about the lineage columns *)

\* standardize_missing has returned in the pipeline
Standardized == call.fn = "pipeline" /\ ret.done

\* C20: of the frame that standardize_missing returns, the two lineage
\* columns hold the values they were given, whatever those are, and every
\* other textual column holds null where it held a missing marker and its
\* value elsewhere.
C20_Claim ==
    Standardized =>
        \A i \in 1..Len(ret.value) :
            IF ret.df[i].role # "raw" THEN ret.value[i] = ret.df[i]
            ELSE IF ret.df[i].string
                 THEN ret.value[i].value =
                         IF IsMissingCell(ret.df[i].value) THEN Null ELSE ret.df[i].value
                 ELSE ret.value[i] = ret.df[i]

----------------------------------------------------------------------------
(* Claims about overlapping invocations *)

Timestamped == {f \in CsvIds : drive[f] # 0}

\* the state store holds the listing's current timestamp of every
\* timestamped .csv file
Converged ==
    \A f \in Timestamped : f \in DOMAIN table /\ table[f].modifiedTime = drive[f]

\* an invocation that ran alone, after every other had ended, over the
\* listing as it still is, and returned
SoloComplete(p) == conc[p].solo /\ lam[p].pc = "done" /\ lam[p].files = drive

\* an invocation that runs alone after such an invocation, same listing
AfterSettled(p) == conc[p].solo /\ conc[p].settled /\ lam[p].files = drive

\* C14 as stated: convergence.  Once the overlapping invocations have ended
\* and the listing no longer changes, one further complete invocation
\* brings the SyncState of every timestamped .csv file to the listing's
\* timestamp, and every invocation after it processes 0 files.
C14_Claim ==
    \A p \in Procs :
        /\ SoloComplete(p) => Converged
        /\ AfterSettled(p) => lam[p].processed = 0 /\ hist[p].sel = {}

\* C14, amended: ... and every invocation after it selects no timestamped
\* file and leaves their SyncState as it is; a .csv file without a
\* timestamp is selected again by every invocation.
C14_Convergence ==
    \A p \in Procs :
        /\ SoloComplete(p) => Converged
        /\ AfterSettled(p) =>
              /\ Converged
              /\ \A f \in hist[p].sel : lam[p].files[f] = 0
              /\ lam[p].processed <= Cardinality(CsvIds \ Timestamped)

\* C14 witness: two invocations overlapped over different listings and left
\* a stale item; an invocation alone brought the state up to date; the next
\* one has returned without processing a file
C14_Witness ==
    /\ lam[2].pc \in {"done", "failed"} /\ lam[2].files # drive
    /\ \E f \in Timestamped : f \in hist[2].wrote
    /\ AfterSettled(1) /\ lam[1].pc = "done" /\ lam[1].processed = 0
    /\ Timestamped = CsvIds

----------------------------------------------------------------------------
(* Claims about the classifier *)

\* the rules of the called list that accept the called name
Accepting == {n \in 1..Len(call.rules) : PatternMatch(call.rules[n], call.file_name)}

\* the folder of the first accepting rule, else the given reserved folder
FirstRuleOr(reserved) ==
    IF Accepting = {} THEN reserved
    ELSE call.rules[CHOOSE n \in Accepting : \A m \in Accepting : n <= m].folder

\* under the program's rule list: the two examples, and every rule's sample
\* name, as written and in lower case, goes to that rule's folder
RouteExamples(reserved) ==
    (call.rules = ROUTE_RULES) =>
        /\ call.file_name = "NH_Ownership_Oct2024.csv" => ret.value = "nh_ownership"
        /\ call.file_name = "unknownfile.csv" => ret.value = reserved
        /\ \A n \in 1..Len(ROUTE_RULES) :
              call.file_name \in {SampleName(ROUTE_RULES[n]), Lower(SampleName(ROUTE_RULES[n]))}
                  => ret.value = ROUTE_RULES[n].folder

\* C15 as stated: dataset_folder_for returns the folder of the first rule,
\* in list order, that matches the whole name case-insensitively, and the
\* reserved identifier unmapped when none does.
C15_Claim ==
    (call.fn = "dataset_folder_for" /\ ret.done) =>
        ret.value = FirstRuleOr("unmapped") /\ RouteExamples("unmapped")

\* C15, amended: the same with the reserved identifier _unmapped
C15_Classifier ==
    (call.fn = "dataset_folder_for" /\ ret.done) =>
        ret.value = FirstRuleOr("_unmapped") /\ RouteExamples("_unmapped")

\* C15 witness: a name two rules of the list accept
C15_Witness ==
    /\ call.fn = "dataset_folder_for" /\ ret.done
    /\ Cardinality(Accepting) = 2
    /\ ret.value = "nh_any"

----------------------------------------------------------------------------
(* Claims about the column names *)

\* how many of the first n columns of the called header carry the name of
\* the n-th
Occurrence(n) == Cardinality({m \in 1..n : call.cols[m] = call.cols[n]})

\* the first occurrence keeps the name, the k-th (k > 1) gets the name with
\* the suffix _<k - 1 + first>, where first is the suffix of the second one
SuffixedFrom(first) ==
    /\ Len(ret.value) = Len(call.cols)
    /\ \A n \in 1..Len(call.cols) :
          ret.value[n] = IF Occurrence(n) = 1 THEN call.cols[n]
                         ELSE call.cols[n] \o "_" \o Str(Occurrence(n) - 2 + first)

\* C16 as stated: the first occurrence of a normalized name keeps it, the
\* second becomes the name with suffix _1 (state, state -> state, state_1),
\* later repeats take the next suffixes, the order is kept.
C16_Claim ==
    (call.fn = "uniqueify" /\ ret.done) =>
        /\ SuffixedFrom(1)
        /\ call.cols = <<"state", "state">> => ret.value = <<"state", "state_1">>

\* C16, amended: the second occurrence becomes the name with suffix _2
\* (state, state -> state, state_2), the third _3, and so on.
C16_Suffixing ==
    (call.fn = "uniqueify" /\ ret.done) =>
        /\ SuffixedFrom(2)
        /\ call.cols = <<"state", "state">> => ret.value = <<"state", "state_2">>

\* C16 witness: a header with one name three times
C16_Witness ==
    /\ call.fn = "uniqueify" /\ ret.done
    /\ call.cols = <<"state", "state", "state">>
    /\ ret.value = <<"state", "state_2", "state_3">>

\* C21: the header uniqueify returns is as long as the one it was given,
\* every name of it begins with the name given at its position, and no two
\* of its names are equal (also for a, a, a_2).
C21_Claim ==
    (call.fn = "uniqueify" /\ ret.done) =>
        /\ Len(ret.value) = Len(call.cols)
        /\ \A n \in 1..Len(call.cols) :
              /\ Len(ret.value[n]) >= Len(call.cols[n])
              /\ SubSeq(ret.value[n], 1, Len(call.cols[n])) = call.cols[n]
        /\ \A m, n \in 1..Len(ret.value) : ret.value[m] = ret.value[n] => m = n

----------------------------------------------------------------------------
(* Claims about the stored timestamps *)

\* C22: no step lowers the modification timestamp the state store holds for
\* a file identifier, however the invocations follow or overlap each other.
C22_Claim ==
    [][ \A f \in DOMAIN table :
            /\ f \in DOMAIN table'
            /\ table'[f].modifiedTime >= table[f].modifiedTime ]_vars

----------------------------------------------------------------------------
(* Claims about the SQL script runner *)

\* the objects under the prefix that are non-empty .sql scripts
Scripts == {k \in DOMAIN objects : SqlKeyOf[k] /\ ~BlankOf[objects[k]]}

\* the queries started so far are those of the least scripts, one each, in
\* ascending key order, and all but the last have SUCCEEDED
InSequence ==
    /\ \A n \in 1..Len(queries) :
          /\ queries[n].key \in Scripts
          /\ \A k \in Scripts :
                KeyLess[k, queries[n].key] <=> \E m \in 1..(n - 1) : queries[m].key = k
    /\ \A n \in 1..(Len(queries) - 1) : queries[n].state = "SUCCEEDED"

\* C23: the non-empty .sql scripts are run one at a time in ascending key
\* order, each query started only when the one before it has SUCCEEDED; a
\* poll that sees FAILED or CANCELLED, or the MAX_POLLS-th poll that sees no
\* final state, makes the handler raise, after which no query is started;
\* the handler returns only if every script was run and every query
\* SUCCEEDED.
C23_Sequencing ==
    [][ /\ InSequence'
        /\ Len(queries') # Len(queries) =>
              /\ runner.pc = "start"
              /\ queries' = Append(queries, [key |-> SqlKey, state |-> "QUEUED"])
        /\ (runner.pc = "wait" /\ runner' # runner) =>
              IF runner.polls = MAX_POLLS
              THEN runner'.pc = "raised" /\ runner'.error = "timeout"
              ELSE CASE queries[runner.qid].state \in {"FAILED", "CANCELLED"} ->
                          runner'.pc = "raised"
                     [] queries[runner.qid].state = "SUCCEEDED" ->
                          runner'.pc \in {"get", "returned", "raised"}
                     [] OTHER ->
                          \/ runner'.pc = "wait" /\ runner'.polls = runner.polls + 1
                          \/ runner'.pc = "raised" /\ runner'.error = "poll"
        /\ runner'.pc = "raised" /\ runner'.error = "query" =>
              queries[runner.qid].state \in {"FAILED", "CANCELLED"}
        /\ runner.pc \in {"raised", "returned"} => queries' = queries /\ runner' = runner
        /\ runner'.pc = "returned" =>
              /\ \A n \in 1..Len(queries') : queries'[n].state = "SUCCEEDED"
              /\ {queries'[n].key : n \in 1..Len(queries')} = Scripts'
              /\ Len(runner'.results) = Len(queries')
              /\ \A n \in 1..Len(queries') :
                    runner'.results[n] = [sql_key |-> queries'[n].key,
                                          query_execution_id |-> n,
                                          state |-> "SUCCEEDED"] ]_vars

\* C23 witness: the handler returned after two queries, over a bucket that
\* also holds an empty script and an object that is no script
C23_Witness ==
    /\ runner.pc = "returned" /\ Len(queries) = 2
    /\ queries[1].key = SQL_PREFIX \o "002_b.SQL"
    /\ queries[2].key = SQL_PREFIX \o "10_c.sql"
    /\ SQL_PREFIX \o "001_a.sql" \in DOMAIN objects
    /\ SQL_PREFIX \o "readme.txt" \in DOMAIN objects

====
